---- MODULE Spec2Model ----
(***************************************************************************)
(* Verification model of the K.U.S.S audio analysis pipeline               *)
(* (AudioProcessor), the part of GameEngine / UIController that drives it, *)
(* the per-frame feature extraction (calculateBandEnergies, detectBeat),   *)
(* the TrackGenerator, the game loop of GameEngine with the playback       *)
(* transport of AudioProcessor, and the ScoreManager.                      *)
(*                                                                         *)
(* Time.  audioContext.currentTime and THREE.Clock are one clock, read in  *)
(* ticks of 1 / TicksPerSecond seconds.                                    *)
(*                                                                         *)
(* Numbers.  JavaScript numbers are modelled by exact rationals            *)
(* [nan, n, d] (d > 0) with one extra value NaN, the result of 0/0 and of  *)
(* any arithmetic on `undefined` (a typed-array read past the end).        *)
(*                                                                         *)
(* Arrays.  this.analysisResults is modelled by its value.  A run resolves *)
(* with the array that is current at that moment and the .then callbacks   *)
(* of loadTrack run in the same microtask checkpoint, so the consumer sees *)
(* exactly the value stored in the run's `result`.                         *)
(***************************************************************************)
EXTENDS Integers, Sequences, FiniteSets, TLC

\* ------------------------------------------------------------------ bounds
MaxDurNum == 3          \* durations are n / DurDen seconds, n in 0..MaxDurNum
DurDen    == 12        \* denominator of the modelled durations
MaxRes    == 8         \* the resolution of direct analyzeAudio(resolution) calls
MaxRuns   == 1          \* Spec: analyzeAudio runs started in one behaviour
MaxLoads  == 1          \* Spec: loadTrack calls in one behaviour
MaxAppRuns   == 2       \* AppSpec: analyzeAudio runs started in one behaviour
MaxAppLoads  == 2       \* AppSpec: loadTrack calls in one behaviour
MaxBins   == 3          \* length of the frequency / time domain arrays
MaxFrames == 2          \* TrackSpec: length of the freely chosen frame sequences
LongFrames == 25        \* TrackSpec: length of the long, level frame sequences
RandomDen == 2          \* Math.random() returns k / RandomDen, 0 <= k < RandomDen
MaxGenerations == 2     \* RegenSpec: generateTrack calls in one behaviour
TicksPerSecond    == 1    \* clock readings per second
MaxClock          == 3    \* the clocks stop after this many ticks
MaxPending        == 2    \* animation-frame callbacks held at once
MaxCalls          == 4    \* ScoreManager calls between two resetScore

\* ------------------------------------------------------- program constants
DefaultResolution == 10   \* analyzeAudio(resolution = 10)
FftSize           == 2048 \* CONFIG.audio.fftSize
LowFreqMax        == 150  \* detectBeat: upper edge of the bass range, Hz
ByteMax           == 255  \* largest Uint8Array element
LaneCount         == 3    \* CONFIG.game.laneCount
SegmentLength     == 50   \* CONFIG.track.segmentLength
VisibleSegments   == 30   \* CONFIG.track.visibleSegments
BlockColorCount   == 6    \* CONFIG.visuals.blockColors.length
PointsPerSegment  == 4    \* generateTrackPath: pointsPerSegment
LeadInPoints      == 10   \* generateTrackPath: the initial straight section
GridInterval      == 5    \* addTrackGrid: gridInterval
BehindSegments    == 5    \* updateTrack: playerSegment - 5
BasePoints         == 50    \* CONFIG.scoring.basePoints
MaxCombo           == 10    \* CONFIG.scoring.maxCombo
PerfectMatchPoints == 200   \* CONFIG.scoring.perfectMatch
ColorMatchPoints   == 100   \* CONFIG.scoring.colorMatch
MissPoints         == -50   \* CONFIG.scoring.miss
ComboTimeoutMs     == 2000  \* addBlock: setTimeout(..., 2000)

\* CONFIG.audio.frequencyBands, Hz
FrequencyBands ==
    << [min |-> 20,   max |-> 60],
       [min |-> 60,   max |-> 250],
       [min |-> 250,  max |-> 500],
       [min |-> 500,  max |-> 2000],
       [min |-> 2000, max |-> 6000],
       [min |-> 6000, max |-> 20000] >>

\* ---------------------------------------------------------------- numbers
RECURSIVE GCD(_, _)
GCD(a, b) == IF b = 0 THEN a ELSE GCD(b, a % b)

Rat(n, d) == [nan |-> FALSE, n |-> n, d |-> d]
NaN       == [nan |-> TRUE, n |-> 0, d |-> 1]
Zero      == Rat(0, 1)
One       == Rat(1, 1)

\* CONFIG.scoring.comboMultiplier
ComboMultiplier == Rat(1, 10)

RatNorm(x) ==
    IF x.nan THEN NaN
    ELSE LET g == GCD(x.n, x.d) IN
         IF g = 0 THEN NaN ELSE Rat(x.n \div g, x.d \div g)

\* a / b on non-negative integers as JavaScript computes it; 0/0 is NaN.
\* (x/0 with x > 0 is Infinity; it does not occur in the modelled code.)
IntDiv(a, b) == IF b = 0 THEN NaN ELSE RatNorm(Rat(a, b))

\* x + y, over the least common denominator
RatAdd(x, y) ==
    IF x.nan \/ y.nan THEN NaN
    ELSE LET g == GCD(x.d, y.d) IN
         RatNorm(Rat(x.n * (y.d \div g) + y.n * (x.d \div g),
                     (x.d \div g) * y.d))

RatNeg(x) == IF x.nan THEN NaN ELSE Rat(0 - x.n, x.d)

RatSub(x, y) == RatAdd(x, RatNeg(y))

RatMul(x, y) ==
    IF x.nan \/ y.nan THEN NaN ELSE RatNorm(Rat(x.n * y.n, x.d * y.d))

\* comparisons with NaN are false, as in JavaScript
RatLeq(x, y) == ~x.nan /\ ~y.nan /\ x.n * y.d <= y.n * x.d
RatLt(x, y)  == ~x.nan /\ ~y.nan /\ x.n * y.d <  y.n * x.d
RatEq(x, y)  == ~x.nan /\ ~y.nan /\ x.n * y.d =  y.n * x.d

\* x / y; the modelled code divides by zero only as 0/0, which is NaN
RatDiv(x, y) ==
    IF x.nan \/ y.nan \/ y.n = 0 THEN NaN
    ELSE RatNorm(Rat(x.n * y.d, x.d * y.n))

\* Math.min(x, y): NaN if either argument is NaN
MathMin(x, y) == IF x.nan \/ y.nan THEN NaN ELSE IF RatLeq(x, y) THEN x ELSE y

\* Math.floor of a non-negative rational
MathFloor(x) == x.n \div x.d

InUnit(x) == RatLeq(Zero, x) /\ RatLeq(x, One)

\* ------------------------------------------------------------------ state
VARIABLES
    audioBuffer,                 \* AudioProcessor.audioBuffer
    analysisResults,             \* AudioProcessor.analysisResults
    analysisDone,                \* AudioProcessor.analysisDone
    onAnalysisProgressCallback,  \* TRUE when a progress callback is registered
    onAnalysisCompleteCallback,  \* TRUE when a completion callback is registered
    runs,                        \* one record per analyzeAudio run (its closure)
    rejectedCall,                \* the last analyzeAudio call rejected at once
    loads,                       \* one record per loadTrack call
    progressCalls,               \* per run: the progress callback invocations
    completeCalls,               \* per run: the completion callback invocations
    trackSource,                 \* what the live track was generated from
    isInitialized,               \* GameEngine.isInitialized
    isPlaying,                   \* GameEngine.isPlaying
    isPaused,                    \* GameEngine.isPaused
    isGameOver,                  \* GameEngine.isGameOver
    startButtonEnabled,          \* !menuUI.startButton.disabled
    frequencyData,               \* argument of the feature extractors
    timeData,                    \* argument of detectBeat
    sampleRate,                  \* audioContext.sampleRate
    bandEnergies,                \* result of calculateBandEnergies
    beatIntensity,               \* result of detectBeat
    featPc,                      \* which extractors have been applied
    trackFrames,                 \* the analysis results generateTrack is given
    trackPath,                   \* TrackGenerator.trackPath
    trackSegments,               \* TrackGenerator.trackSegments
    blocks,                      \* TrackGenerator.blocks
    trackObjects,                \* TrackGenerator.trackObjects
    trackMesh,                   \* TrackGenerator.trackMesh
    scene,                       \* the objects added to the THREE.Scene
    generation,                  \* number of generateTrack calls so far
    lastCall,                    \* the last TrackGenerator call and its result
    clock,                         \* ticks elapsed on the clocks
    audioData,                   \* AudioProcessor.audioData
    audioSource,                 \* AudioProcessor.audioSource
    pendingFrames,               \* gameLoop callbacks requestAnimationFrame holds
    lastFrameTime,               \* GameEngine.lastFrameTime, in ticks
    deltaTime,                   \* GameEngine.deltaTime, in ticks
    player,                      \* GameEngine.player* fields and targetSpeed
    loopThrew,                   \* TRUE once update() has thrown
    scoreManager,                \* the ScoreManager's fields
    scoreLog                     \* the ScoreManager calls since resetScore

procVars == <<audioBuffer, analysisResults, analysisDone,
              onAnalysisProgressCallback, onAnalysisCompleteCallback,
              runs, rejectedCall, loads, progressCalls, completeCalls>>
gameVars == <<trackSource, isInitialized, isPlaying, isPaused, isGameOver,
              startButtonEnabled>>
featVars == <<frequencyData, timeData, sampleRate, bandEnergies,
              beatIntensity, featPc>>
trackVars == <<trackFrames, trackPath, trackSegments, blocks, trackObjects,
               trackMesh, scene, generation, lastCall>>
playVars == <<clock, audioData, audioSource, pendingFrames, lastFrameTime,
              deltaTime, player, loopThrew, scoreManager, scoreLog>>
vars == <<procVars, gameVars, featVars, trackVars, playVars>>

NoBuffer == [id |-> 0, dur |-> Zero]
NoTrack  == [generated |-> FALSE, run |-> 0, frames |-> <<>>]

Durations   == {Rat(n, DurDen) : n \in 0..MaxDurNum}
Resolutions == {MaxRes}

\* ------------------------------------------- AudioProcessor.analyzeAudio
\* a variant that rounds the frame count up
TotalPointsCeil(dur, res) ==
    LET x == RatMul(dur, Rat(res, 1)) IN
    IF x.n % x.d = 0 THEN x.n \div x.d ELSE (x.n \div x.d) + 1

\* const totalPoints = Math.floor(totalDuration * resolution)
TotalPoints(dur, res) == MathFloor(RatMul(dur, Rat(res, 1)))

\* const interval = 1 / resolution
Interval(res) == IntDiv(1, res)

\* a variant that finishes one frame early
ChunkDoneEarly(currentPoint, totalPoints) == currentPoint + 1 >= totalPoints

\* if (currentPoint >= totalPoints) -- the run is finished
ChunkDone(currentPoint, totalPoints) == currentPoint >= totalPoints

\* const nextTime = Math.min(currentTime + interval, totalDuration)
NextTime(currentTime, res, dur) == MathMin(RatAdd(currentTime, Interval(res)), dur)

\* the record pushed on analysisResults: labelled with currentTime, its
\* features taken from the analyser window at the suspended position nextTime
NewFrame(run, r) == [time |-> run.currentTime, pos |-> run.nextTime, run |-> r]

\* a variant that reports after currentPoint++
ProgressValueLate(currentPoint, totalPoints) == IntDiv(currentPoint + 1, totalPoints)

\* this.onAnalysisProgressCallback(currentPoint / totalPoints)
ProgressValue(currentPoint, totalPoints) == IntDiv(currentPoint, totalPoints)

\* a variant that resets the results before the buffer is checked
AnalysisResultsResetFirst(buf, current) == <<>>

\* the value of this.analysisResults after the guard and the reset of a call
AnalysisResultsOnCall(buf, current) == IF buf = NoBuffer THEN current ELSE <<>>

\* a run is in flight while one of its awaits can still be resumed
InFlight(run) == run.pc \in {"suspend", "resume"}

\* processChunk(currentTime) up to its first await, or to its end
ProcessChunk(run, currentTime, results) ==
    IF ChunkDone(run.currentPoint, run.totalPoints)
    THEN [run EXCEPT !.pc = "done", !.promise = "resolved",
                     !.currentTime = currentTime, !.result = results]
    ELSE [run EXCEPT !.pc = "suspend", !.currentTime = currentTime,
                     !.nextTime = NextTime(currentTime, run.res, run.dur)]

\* addTrackGrid: the first cross line reads trackSegments[0 - gridInterval]
\* when the track has fewer than gridInterval + 1 segments; the read of
\* .startPathIndex on undefined throws a TypeError
AddTrackGridThrows(segmentCount) ==
    segmentCount >= 1 /\ ~(0 + GridInterval < segmentCount)

\* number of segments generateTrackPath creates for n frames
SegmentsFor(n) == (n + PointsPerSegment - 1) \div PointsPerSegment

\* generateTrack throws (out of createTrackMesh) for n frames
GenerateTrackThrows(n) == AddTrackGridThrows(SegmentsFor(n))

\* GameEngine.resetShipPosition: the ship is put back at the start
ResetShipPosition(pl) == [pl EXCEPT !.segment = 0, !.lane = 1, !.offset = Zero]

\* what the end of a run does: the completion callback, then (the promise
\* being resolved) the .then of loadTrack and of handleAudioFileSelected
Completion(r, run, results, loadsIn) ==
    /\ analysisDone' = TRUE
    /\ completeCalls' = [i \in 1..Len(runs') |->
           IF i = r
           THEN IF onAnalysisCompleteCallback
                THEN <<[frames |-> results, appended |-> run.currentPoint]>>
                ELSE <<>>
           ELSE completeCalls[i]]
    /\ IF run.task # 0
       THEN IF GenerateTrackThrows(Len(results))
            THEN \* generateTrack throws: loadTrack rejects
                 /\ trackSource' = [generated |-> FALSE, run |-> r,
                                    frames |-> results]
                 /\ loads' = [loadsIn EXCEPT ![run.task].pc = "failed"]
                 /\ startButtonEnabled' = startButtonEnabled
                 /\ player' = player
            ELSE /\ trackSource' = [generated |-> TRUE, run |-> r,
                                    frames |-> results]
                 /\ loads' = [loadsIn EXCEPT ![run.task].pc = "done"]
                 /\ startButtonEnabled' = TRUE
                 /\ player' = ResetShipPosition(player)
       ELSE /\ trackSource' = trackSource
            /\ loads' = loadsIn
            /\ startButtonEnabled' = startButtonEnabled
            /\ player' = player

\* analyzeAudio(resolution) called with this.audioBuffer = buf; task is the
\* loadTrack call it belongs to (0 for a direct call)
AnalyzeBody(buf, res, task, hasCb, resultsIn, doneIn, loadsIn) ==
    LET r == Len(runs) + 1
        others == [i \in 1..Len(runs) |->
                     IF InFlight(runs[i]) THEN [runs[i] EXCEPT !.solo = FALSE]
                     ELSE runs[i]]
        alone == /\ \A i \in 1..Len(runs) : ~InFlight(runs[i])
                 /\ \A t \in 1..Len(loadsIn) : loadsIn[t].pc # "reading"
        run0 == [pc |-> "start", buf |-> buf.id, dur |-> buf.dur, res |-> res,
                 totalPoints |-> TotalPoints(buf.dur, res), currentPoint |-> 0,
                 currentTime |-> Zero, nextTime |-> Zero,
                 promise |-> "pending", task |-> task, solo |-> alone,
                 hadCb |-> hasCb, result |-> <<>>]
        results == AnalysisResultsOnCall(buf, resultsIn)
    IN  /\ analysisResults' = results
        /\ rejectedCall' = (buf = NoBuffer)
        /\ IF buf = NoBuffer
           THEN /\ runs' = runs
                /\ progressCalls' = progressCalls
                /\ analysisDone' = doneIn
                /\ completeCalls' = completeCalls
                /\ trackSource' = trackSource
                /\ startButtonEnabled' = startButtonEnabled
                /\ player' = player
                /\ loads' = IF task = 0 THEN loadsIn
                            ELSE [loadsIn EXCEPT ![task].pc = "failed"]
           ELSE LET run1 == ProcessChunk(run0, Zero, results) IN
                /\ runs' = Append(others, run1)
                /\ progressCalls' = Append(progressCalls, <<>>)
                /\ IF run1.pc = "done"
                   THEN Completion(r, run1, results, loadsIn)
                   ELSE /\ analysisDone' = doneIn
                        /\ completeCalls' = Append(completeCalls, <<>>)
                        /\ trackSource' = trackSource
                        /\ startButtonEnabled' = startButtonEnabled
                        /\ player' = player
                        /\ loads' = loadsIn

\* a direct call of AudioProcessor.analyzeAudio(resolution)
AnalyzeAudio(res) ==
    /\ AnalyzeBody(audioBuffer, res, 0, onAnalysisProgressCallback,
                   analysisResults, analysisDone, loads)
    /\ UNCHANGED <<audioBuffer, onAnalysisProgressCallback,
                   onAnalysisCompleteCallback, isInitialized, isPlaying,
                   isPaused, isGameOver, featVars, trackVars, clock, audioData,
                   audioSource, pendingFrames, lastFrameTime, deltaTime,
                   loopThrew, scoreManager, scoreLog>>

\* `await offlineContext.suspend(nextTime)` resolves: capture, push, report
SuspendResolved(r) ==
    /\ r \in 1..Len(runs)
    /\ runs[r].pc = "suspend"
    /\ LET run == runs[r]
           pushed == Append(analysisResults, NewFrame(run, r))
       IN /\ analysisResults' = pushed
          /\ progressCalls' = [progressCalls EXCEPT ![r] =
                IF onAnalysisProgressCallback
                THEN Append(@, [value |-> ProgressValue(run.currentPoint, run.totalPoints),
                                last |-> pushed[Len(pushed)]])
                ELSE @]
          /\ runs' = [runs EXCEPT ![r].currentPoint = @ + 1, ![r].pc = "resume"]
    /\ UNCHANGED <<audioBuffer, analysisDone, onAnalysisProgressCallback,
                   onAnalysisCompleteCallback, rejectedCall, loads,
                   completeCalls, gameVars, featVars, trackVars, playVars>>

\* `await offlineContext.resume()` resolves: processChunk(nextTime)
ResumeResolved(r) ==
    /\ r \in 1..Len(runs)
    /\ runs[r].pc = "resume"
    /\ LET run1 == ProcessChunk(runs[r], runs[r].nextTime, analysisResults) IN
       /\ runs' = [runs EXCEPT ![r] = run1]
       /\ IF run1.pc = "done"
          THEN Completion(r, run1, analysisResults, loads)
          ELSE UNCHANGED <<analysisDone, completeCalls, trackSource, loads,
                           startButtonEnabled, player>>
    /\ UNCHANGED <<audioBuffer, analysisResults, onAnalysisProgressCallback,
                   onAnalysisCompleteCallback, rejectedCall, progressCalls,
                   isInitialized,
                   isPlaying, isPaused, isGameOver, featVars, trackVars, clock, audioData,
                   audioSource, pendingFrames, lastFrameTime, deltaTime,
                   loopThrew, scoreManager, scoreLog>>

\* the awaited suspend() rejects: processChunk's own promise rejects and
\* nothing handles it; neither resolve nor reject of analyzeAudio is called
SuspendRejected(r) ==
    /\ r \in 1..Len(runs)
    /\ runs[r].pc = "suspend"
    /\ runs' = [runs EXCEPT ![r].pc = "hung"]
    /\ UNCHANGED <<audioBuffer, analysisResults, analysisDone,
                   onAnalysisProgressCallback, onAnalysisCompleteCallback,
                   rejectedCall, loads, progressCalls, completeCalls,
                   gameVars, featVars, trackVars, playVars>>

\* the awaited resume() rejects: as for suspend()
ResumeRejected(r) ==
    /\ r \in 1..Len(runs)
    /\ runs[r].pc = "resume"
    /\ runs' = [runs EXCEPT ![r].pc = "hung"]
    /\ UNCHANGED <<audioBuffer, analysisResults, analysisDone,
                   onAnalysisProgressCallback, onAnalysisCompleteCallback,
                   rejectedCall, loads, progressCalls, completeCalls,
                   gameVars, featVars, trackVars, playVars>>

\* startRendering() rejects: .catch(error => reject(error)); rendering has
\* stopped, so no pending suspend of this run is ever resumed.  loadTrack's
\* .catch passes the failure on and generates no track.
RenderingRejected(r) ==
    /\ r \in 1..Len(runs)
    /\ InFlight(runs[r])
    /\ runs' = [runs EXCEPT ![r].pc = "renderfail", ![r].promise = "rejected"]
    /\ loads' = IF runs[r].task = 0 THEN loads
                ELSE [loads EXCEPT ![runs[r].task].pc = "failed"]
    /\ UNCHANGED <<audioBuffer, analysisResults, analysisDone,
                   onAnalysisProgressCallback, onAnalysisCompleteCallback,
                   rejectedCall, progressCalls, completeCalls, gameVars,
                   featVars, trackVars, playVars>>

\* AudioProcessor.setAnalysisCompleteCallback(callback)
SetAnalysisCompleteCallback ==
    /\ ~onAnalysisCompleteCallback
    /\ onAnalysisCompleteCallback' = TRUE
    /\ UNCHANGED <<audioBuffer, analysisResults, analysisDone,
                   onAnalysisProgressCallback, runs, rejectedCall, loads,
                   progressCalls, completeCalls, gameVars, featVars, trackVars, playVars>>

\* ------------------------------------- UIController / GameEngine.loadTrack
\* handleAudioFileSelected(file) -> loadTrack(file) -> loadAudioFile(file),
\* up to fileReader.readAsArrayBuffer(file)
HandleAudioFileSelected(dur) ==
    /\ loads' = Append(loads, [pc |-> "reading", dur |-> dur])
    /\ runs' = [i \in 1..Len(runs) |->
                  IF InFlight(runs[i]) THEN [runs[i] EXCEPT !.solo = FALSE]
                  ELSE runs[i]]
    /\ UNCHANGED <<audioBuffer, analysisResults, analysisDone,
                   onAnalysisProgressCallback, onAnalysisCompleteCallback,
                   rejectedCall, progressCalls, completeCalls, gameVars,
                   featVars, trackVars, playVars>>

\* fileReader.onload with a successful decodeAudioData, and the first .then
\* of loadTrack (same microtask checkpoint): the buffer is stored, the
\* analysis state reset, the progress callback set and analyzeAudio() called
LoadDecoded(t) ==
    /\ t \in 1..Len(loads)
    /\ loads[t].pc = "reading"
    /\ LET buf == [id |-> t, dur |-> loads[t].dur] IN
       /\ audioBuffer' = buf
       /\ onAnalysisProgressCallback' = TRUE
       /\ AnalyzeBody(buf, DefaultResolution, t, TRUE, <<>>, FALSE,
                      [loads EXCEPT ![t].pc = "analysing"])
    /\ UNCHANGED <<onAnalysisCompleteCallback, isInitialized, isPlaying,
                   isPaused, isGameOver, featVars, trackVars, clock, audioData,
                   audioSource, pendingFrames, lastFrameTime, deltaTime,
                   loopThrew, scoreManager, scoreLog>>

\* fileReader.onerror, or decodeAudioData rejects: loadTrack rejects
LoadFailed(t) ==
    /\ t \in 1..Len(loads)
    /\ loads[t].pc = "reading"
    /\ loads' = [loads EXCEPT ![t].pc = "failed"]
    /\ UNCHANGED <<audioBuffer, analysisResults, analysisDone,
                   onAnalysisProgressCallback, onAnalysisCompleteCallback,
                   runs, rejectedCall, progressCalls, completeCalls,
                   gameVars, featVars, trackVars, playVars>>

\* ------------------------------------------------- AudioProcessor playback
\* the clocks (audioContext.currentTime, THREE.Clock) are read in ticks
Seconds(ticks) == RatNorm(Rat(ticks, TicksPerSecond))

\* audioData after the constructor; the times are in ticks
NoPlayback == [isPlaying |-> FALSE, startTime |-> 0, currentTime |-> 0]

\* this.audioSource: null, or the last AudioBufferSourceNode created; while
\* it runs, the buffer offset and the time of its start(), once stopped the
\* buffer position it stopped at (in offset)
NoSource == [created |-> FALSE, running |-> FALSE, offset |-> 0,
             startedAt |-> 0]

\* audioSource.start(0, offset) at tick t
StartedSource(offset, t) ==
    [created |-> TRUE, running |-> TRUE, offset |-> offset, startedAt |-> t]

\* the buffer position the source node has played up to, in ticks
SourcePosition(src, t) ==
    IF src.running THEN src.offset + (t - src.startedAt) ELSE src.offset

\* audioSource.stop() at tick t
StoppedSource(src, t) ==
    IF src.running
    THEN [src EXCEPT !.running = FALSE, !.offset = SourcePosition(src, t),
                     !.startedAt = 0]
    ELSE src

\* AudioProcessor.getCurrentTime
GetCurrentTime(ad, t) ==
    IF ~ad.isPlaying THEN ad.currentTime ELSE t - ad.startTime

\* AudioProcessor.play
Play(buf, ad, src, t) ==
    IF buf = NoBuffer \/ ad.isPlaying
    THEN [audioData |-> ad, audioSource |-> src]
    ELSE [audioData |-> [ad EXCEPT !.isPlaying = TRUE, !.startTime = t],
          audioSource |-> StartedSource(0, t)]

\* AudioProcessor.pause: isPlaying is cleared before getCurrentTime is called
Pause(ad, src, t) ==
    IF ~ad.isPlaying \/ ~src.created
    THEN [audioData |-> ad, audioSource |-> src]
    ELSE LET stopped == [ad EXCEPT !.isPlaying = FALSE] IN
         [audioData |-> [stopped EXCEPT !.currentTime = GetCurrentTime(stopped, t)],
          audioSource |-> StoppedSource(src, t)]

\* AudioProcessor.resume
Resume(ad, src, t) ==
    IF ad.isPlaying
    THEN [audioData |-> ad, audioSource |-> src]
    ELSE [audioData |-> [ad EXCEPT !.isPlaying = TRUE,
                                   !.startTime = t - ad.currentTime],
          audioSource |-> StartedSource(ad.currentTime, t)]

\* AudioProcessor.stop
Stop(ad, src, t) ==
    IF ~ad.isPlaying \/ ~src.created
    THEN [audioData |-> ad, audioSource |-> src]
    ELSE [audioData |-> [ad EXCEPT !.isPlaying = FALSE, !.currentTime = 0],
          audioSource |-> StoppedSource(src, t)]

\* getPlaybackProgress() >= 0.999; x / 0 is Infinity for x > 0 and NaN for 0
PlaybackComplete(buf, ad, t) ==
    /\ buf # NoBuffer
    /\ IF buf.dur.n = 0
       THEN GetCurrentTime(ad, t) > 0
       ELSE RatLeq(Rat(999, 1000),
                   RatDiv(Seconds(GetCurrentTime(ad, t)), buf.dur))

\* ------------------------------------------------------------ ScoreManager
\* the fields after the constructor and after resetScore; comboTimer is the
\* tick at which the pending timeout is due, 0 when none is pending
FreshScore ==
    [score |-> 0, combo |-> 0, maxCombo |-> 0, currentMultiplier |-> One,
     consecutiveBlocks |-> 0, comboTimer |-> 0, lastBlockColor |-> -1,
     colorMatches |-> 0, blockCollected |-> 0, perfect |-> 0]

\* Math.round
MathRound(x) == MathFloor(RatAdd(x, Rat(1, 2)))

\* the 2000 ms of the combo timer, in ticks
ComboTimeoutTicks == (ComboTimeoutMs * TicksPerSecond) \div 1000

\* if (this.colorMatches >= 3): the perfect match
PerfectMatch(colorMatches) == colorMatches >= 3

\* ScoreManager.addBlock(blockColor), called at tick t
AddBlock(sm, blockColor, t) ==
    LET same == sm.lastBlockColor = blockColor
        colorMatches == IF same THEN sm.colorMatches + 1 ELSE 0
        perfectNow == same /\ PerfectMatch(colorMatches)
        base == RatMul(Rat(BasePoints, 1), sm.currentMultiplier)
        matched == IF same
                   THEN RatAdd(base, Rat(ColorMatchPoints * colorMatches, 1))
                   ELSE base
        points == IF perfectNow
                  THEN RatAdd(matched, Rat(PerfectMatchPoints, 1))
                  ELSE matched
        combo == sm.combo + 1
    IN  [score |-> sm.score + MathRound(points),
         combo |-> combo,
         maxCombo |-> IF combo > sm.maxCombo THEN combo ELSE sm.maxCombo,
         currentMultiplier |->
             MathMin(RatAdd(One, RatMul(Rat(combo, 1), ComboMultiplier)),
                     Rat(MaxCombo, 1)),
         consecutiveBlocks |-> sm.consecutiveBlocks + 1,
         comboTimer |-> t + ComboTimeoutTicks,
         lastBlockColor |-> blockColor,
         colorMatches |-> colorMatches,
         blockCollected |-> sm.blockCollected + 1,
         perfect |-> IF perfectNow THEN sm.perfect + 1 ELSE sm.perfect]

\* ScoreManager.resetCombo
ResetCombo(sm) ==
    [sm EXCEPT !.combo = 0, !.currentMultiplier = One, !.colorMatches = 0]

\* ScoreManager.addMiss
AddMiss(sm) ==
    LET score == sm.score + MissPoints IN
    ResetCombo([sm EXCEPT !.score = IF score < 0 THEN 0 ELSE score])

\* the entry a ScoreManager call leaves in the log
Logged(op, blockColor, sm) ==
    [op |-> op, blockColor |-> blockColor, perfect |-> sm.perfect,
     score |-> sm.score]

\* AudioProcessor.dispose(): the source is stopped, the nodes are
\* disconnected, the buffer dropped
AudioDispose ==
    /\ audioBuffer # NoBuffer
    /\ audioBuffer' = NoBuffer
    /\ audioData' = [audioData EXCEPT !.isPlaying = FALSE]
    /\ audioSource' = StoppedSource(audioSource, clock)
    /\ UNCHANGED <<analysisResults, analysisDone, onAnalysisProgressCallback,
                   onAnalysisCompleteCallback, runs, rejectedCall, loads,
                   progressCalls, completeCalls, gameVars, featVars, trackVars,
                   clock, pendingFrames, lastFrameTime, deltaTime, player,
                   loopThrew, scoreManager, scoreLog>>


\* ------------------------------------------------- feature extraction
\* analyser.frequencyBinCount: the length of both arrays analyzeAudio fills
FrequencyBinCount == FftSize \div 2

\* element values of the modelled Uint8Arrays
Bytes == {0, 128, ByteMax}

\* audioContext.sampleRate values, Hz
SampleRates == {8000, 32000, 44100, 48000, 384000}

\* every array of at most MaxBins elements
ShortArrays == UNION {[1..n -> Bytes] : n \in 0..MaxBins}

\* arrays of the length analyzeAudio passes: constant ones and one that
\* alternates between 0 and ByteMax
FullArrays ==
    {[i \in 1..FrequencyBinCount |-> v] : v \in Bytes}
        \cup {[i \in 1..FrequencyBinCount |-> IF i % 2 = 0 THEN ByteMax ELSE 0]}

\* data[i] (0-based) as a number in arithmetic: a read past the end of a
\* typed array is undefined, which arithmetic turns into NaN
ReadByte(data, i) ==
    IF i >= 0 /\ i < Len(data) THEN Rat(data[i + 1], 1) ELSE NaN

\* Math.floor(freq / nyquist * length) with nyquist = rate / 2
BinIndex(freq, rate, length) == (2 * freq * length) \div rate

\* the accumulator of `for (i = lo; i <= hi; i++) energy += data[i] / 255`
RECURSIVE SumNormalized(_, _, _)
SumNormalized(data, lo, hi) ==
    IF lo > hi THEN Zero
    ELSE IF lo = hi THEN RatDiv(ReadByte(data, lo), Rat(ByteMax, 1))
    ELSE LET mid == (lo + hi) \div 2 IN
         RatAdd(SumNormalized(data, lo, mid), SumNormalized(data, mid + 1, hi))

\* the accumulator of `for (i = lo; i <= hi; i++) energy += data[i]`
RECURSIVE SumBytes(_, _, _)
SumBytes(data, lo, hi) ==
    IF lo > hi THEN Zero
    ELSE IF lo = hi THEN ReadByte(data, lo)
    ELSE LET mid == (lo + hi) \div 2 IN
         RatAdd(SumBytes(data, lo, mid), SumBytes(data, mid + 1, hi))

Abs(x) == IF x < 0 THEN 0 - x ELSE x

\* the accumulator of
\* `for (i = lo; i <= hi; i++) t += Math.abs(data[i] - data[i - 1])`
RECURSIVE SumTransients(_, _, _)
SumTransients(data, lo, hi) ==
    IF lo > hi THEN Zero
    ELSE IF lo = hi THEN Rat(Abs(data[lo + 1] - data[lo]), 1)
    ELSE LET mid == (lo + hi) \div 2 IN
         RatAdd(SumTransients(data, lo, mid), SumTransients(data, mid + 1, hi))

\* one iteration of the loop over the bands in calculateBandEnergies
BandEnergy(band, data, rate) ==
    LET minIndex == BinIndex(band.min, rate, Len(data))
        maxIndex == BinIndex(band.max, rate, Len(data))
        energy   == SumNormalized(data, minIndex, maxIndex)
    IN  RatDiv(energy, Rat(maxIndex - minIndex + 1, 1))

\* AudioProcessor.calculateBandEnergies
CalculateBandEnergies(data, rate) ==
    [b \in 1..Len(FrequencyBands) |-> BandEnergy(FrequencyBands[b], data, rate)]

\* detectBeat: the bass energy after `energy /= maxIndex * 255`
BassEnergy(data, rate) ==
    LET maxIndex == BinIndex(LowFreqMax, rate, Len(data))
    IN  RatDiv(SumBytes(data, 0, maxIndex - 1), Rat(maxIndex * ByteMax, 1))

\* detectBeat: the transient energy after
\* `transientEnergy /= 255 * timeData.length`
TransientEnergy(data) ==
    RatDiv(SumTransients(data, 1, Len(data) - 1), Rat(ByteMax * Len(data), 1))

\* AudioProcessor.detectBeat
DetectBeat(fdata, tdata, rate) ==
    MathMin(One, RatAdd(RatMul(BassEnergy(fdata, rate), Rat(7, 10)),
                        RatMul(TransientEnergy(tdata), Rat(3, 10))))

\* analyzeAudio, processChunk: bandEnergies = calculateBandEnergies(...)
ExtractBandEnergies ==
    /\ featPc = "idle"
    /\ bandEnergies' = CalculateBandEnergies(frequencyData, sampleRate)
    /\ featPc' = "bands"
    /\ UNCHANGED <<procVars, gameVars, trackVars, playVars, frequencyData, timeData,
                   sampleRate, beatIntensity>>

\* analyzeAudio, processChunk: beatIntensity = detectBeat(...)
ExtractBeat ==
    /\ featPc = "bands"
    /\ beatIntensity' = DetectBeat(frequencyData, timeData, sampleRate)
    /\ featPc' = "done"
    /\ UNCHANGED <<procVars, gameVars, trackVars, playVars, frequencyData, timeData,
                   sampleRate, bandEnergies>>

\* --------------------------------------------------------- TrackGenerator
\* A path point is [rotation, tilt, y, heading, stride]: y is position.y and
\* (heading, stride) is the horizontal displacement from the previous point
\* in polar form, (sin(heading), -cos(heading)) * stride.  The lead-in points
\* have heading 0; with every heading 0 a point has x = 0 and z = minus the
\* sum of the strides up to it.
CurveIntensity == Rat(4, 5)     \* CONFIG.track.curveIntensity
Hilliness      == Rat(3, 5)     \* CONFIG.track.hilliness

\* this.segmentLength / pointsPerSegment
StepLength == IntDiv(SegmentLength, PointsPerSegment)

\* x > y on numbers; false when either is NaN
RatGt(x, y) == RatLt(y, x)

\* analyzeAudio: isBlock: beatIntensity > 0.6
IsBlock(beat) == RatGt(beat, Rat(3, 5))

\* the loop of determineBlockColor over bandEnergies (i is 1-based here)
RECURSIVE MaxEnergyIndex(_, _, _, _)
MaxEnergyIndex(bands, i, maxEnergy, maxEnergyIndex) ==
    IF i > Len(bands) THEN maxEnergyIndex
    ELSE IF RatGt(bands[i], maxEnergy)
         THEN MaxEnergyIndex(bands, i + 1, bands[i], i - 1)
         ELSE MaxEnergyIndex(bands, i + 1, maxEnergy, maxEnergyIndex)

\* AudioProcessor.determineBlockColor
DetermineBlockColor(bands) == MaxEnergyIndex(bands, 1, Zero, 0) % BlockColorCount

\* the record analyzeAudio pushes for one frame (time left out)
MakeFrame(beat, bands, tdata) ==
    [beatIntensity |-> beat, bandEnergies |-> bands, timeData |-> tdata,
     isBlock |-> IsBlock(beat), blockColor |-> DetermineBlockColor(bands)]

\* a lead-in whose loop stops one point early
LeadInShort ==
    [i \in 1..(LeadInPoints - 1) |->
        [rotation |-> Zero, tilt |-> Zero, y |-> Zero, heading |-> Zero,
         stride |-> IF i = 1 THEN Zero ELSE StepLength]]

\* generateTrackPath: the initial straight section
LeadIn ==
    [i \in 1..LeadInPoints |->
        [rotation |-> Zero, tilt |-> Zero, y |-> Zero, heading |-> Zero,
         stride |-> IF i = 1 THEN Zero ELSE StepLength]]

\* the accumulator of
\* `for (j = lo; j <= hi; j++) sum += Math.abs(timeData[j] - 128)`
RECURSIVE SumAmplitudes(_, _, _)
SumAmplitudes(data, lo, hi) ==
    IF lo > hi THEN 0
    ELSE IF lo = hi THEN Abs(data[lo + 1] - 128)
    ELSE LET mid == (lo + hi) \div 2 IN
         SumAmplitudes(data, lo, mid) + SumAmplitudes(data, mid + 1, hi)

\* generateTrackPath: targetElevation from the waveform of a frame
TargetElevation(tdata) ==
    LET avgAmplitude == IntDiv(SumAmplitudes(tdata, 0, Len(tdata) - 1), Len(tdata))
    IN  RatSub(RatMul(RatMul(RatDiv(avgAmplitude, Rat(128, 1)), Hilliness),
                      Rat(10, 1)),
               Rat(5, 1))

\* the threshold of generateTrackPath above which a beat turns the track
TurnThresholdLow == Rat(3, 5)

TurnThreshold == Rat(7, 10)

\* the state of generateTrackPath before its loop
PathStart ==
    [i |-> 0, path |-> LeadIn, segments |-> <<>>,
     currentDirection |-> Zero, currentTilt |-> Zero,
     targetDirection |-> Zero, targetTilt |-> Zero,
     currentElevation |-> Zero, targetElevation |-> Zero]

\* a segment that starts at the point just pushed
NewSegmentAhead(path, analysis, i) ==
    [startPathIndex |-> Len(path) - 1,
     endPathIndex |-> Len(path) - 1 + PointsPerSegment - 1,
     audioIndex |-> i,
     beatIntensity |-> analysis.beatIntensity,
     bandEnergies |-> analysis.bandEnergies]

\* the segment generateTrackPath pushes after the point of frame i: the last
\* pointsPerSegment points of the path
NewSegment(path, analysis, i) ==
    [startPathIndex |-> Len(path) - PointsPerSegment,
     endPathIndex |-> Len(path) - 1,
     audioIndex |-> i,
     beatIntensity |-> analysis.beatIntensity,
     bandEnergies |-> analysis.bandEnergies]

\* one iteration of the loop of generateTrackPath, for frame st.i (0-based)
PathStep(st, analysis) ==
    LET i == st.i
        b == analysis.bandEnergies
        targetDirection ==
            IF RatGt(analysis.beatIntensity, TurnThreshold)
            THEN RatMul(RatMul(RatSub(b[2], b[5]), CurveIntensity), Rat(1, 2))
            ELSE RatMul(st.targetDirection, Rat(19, 20))
        targetTilt ==
            IF RatGt(b[3], Rat(7, 10)) \/ RatGt(b[4], Rat(7, 10))
            THEN RatMul(RatSub(b[3], b[4]), Hilliness)
            ELSE RatMul(st.targetTilt, Rat(19, 20))
        targetElevation == TargetElevation(analysis.timeData)
        currentDirection == RatAdd(RatMul(st.currentDirection, Rat(9, 10)),
                                   RatMul(targetDirection, Rat(1, 10)))
        currentTilt == RatAdd(RatMul(st.currentTilt, Rat(9, 10)),
                              RatMul(targetTilt, Rat(1, 10)))
        currentElevation == RatAdd(RatMul(st.currentElevation, Rat(19, 20)),
                                   RatMul(targetElevation, Rat(1, 20)))
        lastPoint == st.path[Len(st.path)]
        newDirection == RatAdd(lastPoint.rotation, currentDirection)
        path == Append(st.path,
                    [rotation |-> newDirection, tilt |-> currentTilt,
                     y |-> RatAdd(lastPoint.y, currentElevation),
                     heading |-> newDirection, stride |-> StepLength])
    IN  [i |-> i + 1, path |-> path,
         segments |->
            IF i % PointsPerSegment = 0
            THEN Append(st.segments, NewSegment(path, analysis, i))
            ELSE st.segments,
         currentDirection |-> currentDirection, currentTilt |-> currentTilt,
         targetDirection |-> targetDirection, targetTilt |-> targetTilt,
         currentElevation |-> currentElevation,
         targetElevation |-> targetElevation]

\* the loop of generateTrackPath, continued from the loop state st until the
\* index reaches the number of frames
RECURSIVE PathLoop(_, _)
PathLoop(st, results) ==
    IF ~(st.i < Len(results)) THEN st
    ELSE PathLoop(PathStep(st, results[st.i + 1]), results)

\* TrackGenerator.generateTrackPath: [path, segments]
GenerateTrackPath(results) ==
    LET st == PathLoop(PathStart, results)
    IN  [path |-> st.path, segments |-> st.segments]

\* the values Math.random() returns in the model
Randoms == {Rat(k, RandomDen) : k \in 0..(RandomDen - 1)}

\* bandEnergies.reduce((sum, energy) => sum + energy, 0)
RECURSIVE TotalEnergy(_, _)
TotalEnergy(bands, n) ==
    IF n = 0 THEN Zero ELSE RatAdd(TotalEnergy(bands, n - 1), bands[n])

\* the band index the loop of determineLane returns at, or having no index,
\* without the modulo: band i (1-based here)
RECURSIVE LaneLoop(_, _, _, _)
LaneLoop(bands, i, cumulativeEnergy, randomValue) ==
    IF i > Len(bands) THEN -1
    ELSE LET c == RatAdd(cumulativeEnergy, bands[i]) IN
         IF RatLeq(randomValue, c) THEN i - 1
         ELSE LaneLoop(bands, i + 1, c, randomValue)

\* a variant of determineLane that returns the band index itself
DetermineLaneNoModulo(bands, random1, random2) ==
    LET band == LaneLoop(bands, 1, Zero,
                         RatMul(random1, TotalEnergy(bands, Len(bands))))
    IN  IF band >= 0 THEN band
        ELSE MathFloor(RatMul(random2, Rat(LaneCount, 1)))

\* TrackGenerator.determineLane, with the two values Math.random() returns
DetermineLane(bands, random1, random2) ==
    LET band == LaneLoop(bands, 1, Zero,
                         RatMul(random1, TotalEnergy(bands, Len(bands))))
    IN  IF band >= 0 THEN band % LaneCount
        ELSE MathFloor(RatMul(random2, Rat(LaneCount, 1)))

\* the frames (0-based indices) for which generateTrackObjects creates a
\* block, in increasing order
BlockFrames(results, n, segmentCount) ==
    LET chosen == {i \in 0..(n - 1) :
                      /\ results[i + 1].isBlock
                      /\ ~(i \div PointsPerSegment >= segmentCount)}
    IN  [k \in 1..Cardinality(chosen) |->
            CHOOSE i \in chosen : Cardinality({j \in chosen : j < i}) = k - 1]

\* a scene object created by generation gen
Object(kind, gen, n) == [kind |-> kind, gen |-> gen, n |-> n]

\* this.trackMesh = null
NoObject == Object("none", 0, 0)

\* generateTrackObjects / createBlock: the blocks of the block frames, draws[k]
\* the pair of random values determineLane uses for the k-th block
Blocks(results, blockFrames, draws, gen) ==
    [k \in 1..Len(blockFrames) |->
        LET i == blockFrames[k]
            analysis == results[i + 1]
        IN  [mesh |-> Object("block", gen, k),
             meshVisible |-> TRUE,
             laneIndex |-> DetermineLane(analysis.bandEnergies,
                                         draws[k][1], draws[k][2]),
             segmentIndex |-> i \div PointsPerSegment,
             color |-> analysis.blockColor,
             collected |-> FALSE,
             visible |-> TRUE]]

\* the set of the elements of a sequence
Range(seq) == {seq[i] : i \in 1..Len(seq)}

\* a clearTrack that removes the track mesh only
SceneKept == scene \ {trackMesh}

\* clearTrack: what is left in the scene
SceneCleared == (scene \ Range(trackObjects)) \ {trackMesh}

\* TrackGenerator.generateTrack(analysisResults): clearTrack,
\* generateTrackPath, createTrackMesh (with addTrackGrid),
\* generateTrackObjects
GenerateTrackBody(results) ==
    LET gen == generation + 1
        gp == GenerateTrackPath(results)
        mesh == Object("track", gen, 0)
        grid == Object("grid", gen, 0)
        blockFrames == BlockFrames(results, Len(results),
                                   Len(gp.segments))
    IN  /\ trackFrames' = results
        /\ generation' = gen
        /\ trackPath' = gp.path
        /\ trackSegments' = gp.segments
        /\ trackMesh' = mesh
        /\ IF AddTrackGridThrows(Len(gp.segments))
           THEN /\ blocks' = <<>>
                /\ trackObjects' = <<>>
                /\ scene' = SceneCleared \cup {mesh}
                /\ lastCall' = [op |-> "generateTrack", threw |-> TRUE]
           ELSE \E draws \in [1..Len(blockFrames) -> Randoms \X Randoms] :
                LET made == Blocks(results, blockFrames, draws, gen) IN
                /\ blocks' = made
                /\ trackObjects' = <<grid>> \o [k \in 1..Len(made) |-> made[k].mesh]
                /\ scene' = SceneCleared \cup {mesh, grid}
                                \cup {made[k].mesh : k \in 1..Len(made)}
                /\ lastCall' = [op |-> "generateTrack", threw |-> FALSE,
                                totalSegments |-> Len(gp.segments),
                                totalBlocks |-> Len(made)]

GenerateTrack(results) ==
    /\ GenerateTrackBody(results)
    /\ UNCHANGED <<procVars, gameVars, featVars, playVars>>

\* TrackGenerator.clearTrack
ClearTrack ==
    /\ trackPath # <<>> \/ scene # {}
    /\ scene' = SceneCleared
    /\ trackMesh' = NoObject
    /\ trackObjects' = <<>>
    /\ blocks' = <<>>
    /\ trackSegments' = <<>>
    /\ trackPath' = <<>>
    /\ lastCall' = [op |-> "clearTrack"]
    /\ UNCHANGED <<procVars, gameVars, featVars, playVars, trackFrames, generation>>

\* the range check of getPositionOnTrack and getDirectionAtSegment
SegmentOutOfRangeLoose(segmentIndex) ==
    segmentIndex < 0 \/ segmentIndex > Len(trackSegments)

SegmentOutOfRange(segmentIndex) ==
    segmentIndex < 0 \/ segmentIndex >= Len(trackSegments)

\* segment.startPathIndex + Math.floor(offset * (end - start)); reading a
\* field of trackSegments[segmentIndex] throws when that element is undefined
PointIndex(segmentIndex, offset) ==
    IF segmentIndex + 1 \in 1..Len(trackSegments)
    THEN LET segment == trackSegments[segmentIndex + 1] IN
         segment.startPathIndex
            + MathFloor(RatMul(offset, Rat(segment.endPathIndex
                                              - segment.startPathIndex, 1)))
    ELSE -1

\* TrackGenerator.getPositionOnTrack
GetPositionOnTrack(segmentIndex, laneIndex, offset) ==
    /\ lastCall' =
          IF SegmentOutOfRange(segmentIndex)
          THEN [op |-> "getPositionOnTrack", segmentIndex |-> segmentIndex,
                threw |-> FALSE, result |-> "origin"]
          ELSE IF PointIndex(segmentIndex, offset) + 1 \in 1..Len(trackPath)
          THEN [op |-> "getPositionOnTrack", segmentIndex |-> segmentIndex,
                threw |-> FALSE, result |-> "onTrack",
                pointIndex |-> PointIndex(segmentIndex, offset)]
          ELSE [op |-> "getPositionOnTrack", segmentIndex |-> segmentIndex,
                threw |-> TRUE]
    /\ UNCHANGED <<procVars, gameVars, featVars, playVars, trackFrames, trackPath,
                   trackSegments, blocks, trackObjects, trackMesh, scene,
                   generation>>

\* TrackGenerator.getDirectionAtSegment
GetDirectionAtSegment(segmentIndex, offset) ==
    /\ lastCall' =
          IF SegmentOutOfRange(segmentIndex)
          THEN [op |-> "getDirectionAtSegment", segmentIndex |-> segmentIndex,
                threw |-> FALSE, result |-> "forward"]
          ELSE IF PointIndex(segmentIndex, offset) < 0
          THEN [op |-> "getDirectionAtSegment", segmentIndex |-> segmentIndex,
                threw |-> TRUE]
          ELSE IF PointIndex(segmentIndex, offset) + 1 >= Len(trackPath)
          THEN [op |-> "getDirectionAtSegment", segmentIndex |-> segmentIndex,
                threw |-> FALSE, result |-> "forward"]
          ELSE [op |-> "getDirectionAtSegment", segmentIndex |-> segmentIndex,
                threw |-> FALSE, result |-> "difference",
                pointIndex |-> PointIndex(segmentIndex, offset)]
    /\ UNCHANGED <<procVars, gameVars, featVars, playVars, trackFrames, trackPath,
                   trackSegments, blocks, trackObjects, trackMesh, scene,
                   generation>>

\* checkBlockCollision without `if (block.collected) continue`
HitsIgnoringCollected(block, playerSegment, playerLane) ==
    /\ Abs(block.segmentIndex - playerSegment) <= 1
    /\ block.laneIndex = playerLane

\* the test checkBlockCollision applies to one block
Hits(block, playerSegment, playerLane) ==
    /\ ~block.collected
    /\ Abs(block.segmentIndex - playerSegment) <= 1
    /\ block.laneIndex = playerLane

\* checkBlockCollision: the first block of bs that is hit, 0 for none
HitIndex(bs, playerSegment, playerLane) ==
    LET hit == {i \in 1..Len(bs) : Hits(bs[i], playerSegment, playerLane)}
    IN  IF hit = {} THEN 0 ELSE CHOOSE k \in hit : \A j \in hit : k <= j

\* checkBlockCollision: block i (if any) is marked collected and hidden
CollectedBlocks(bs, i) ==
    IF i = 0 THEN bs
    ELSE [bs EXCEPT ![i].collected = TRUE, ![i].meshVisible = FALSE]

\* TrackGenerator.checkBlockCollision
CheckBlockCollision(playerSegment, playerLane) ==
    LET hit == {i \in 1..Len(blocks) : Hits(blocks[i], playerSegment, playerLane)}
    IN  /\ IF hit = {}
           THEN /\ blocks' = blocks
                /\ lastCall' = [op |-> "checkBlockCollision",
                                playerSegment |-> playerSegment,
                                playerLane |-> playerLane, result |-> "null"]
           ELSE LET i == CHOOSE k \in hit : \A j \in hit : k <= j IN
                /\ blocks' = [blocks EXCEPT ![i].collected = TRUE,
                                            ![i].meshVisible = FALSE]
                /\ lastCall' = [op |-> "checkBlockCollision",
                                playerSegment |-> playerSegment,
                                playerLane |-> playerLane, result |-> "block",
                                index |-> i - 1, color |-> blocks[i].color,
                                segmentIndex |-> blocks[i].segmentIndex,
                                mesh |-> blocks[i].mesh]
        /\ UNCHANGED <<procVars, gameVars, featVars, playVars, trackFrames, trackPath,
                       trackSegments, trackObjects, trackMesh, scene,
                       generation>>

\* updateTrack with the lower edge of the visible range one segment off
InVisibleRangeShort(segmentIndex, playerSegment) ==
    /\ segmentIndex >= playerSegment - BehindSegments + 1
    /\ segmentIndex <= playerSegment + VisibleSegments - 1

\* updateTrack: the visible range around playerSegment
InVisibleRange(segmentIndex, playerSegment) ==
    /\ segmentIndex >= playerSegment - BehindSegments
    /\ segmentIndex <= playerSegment + VisibleSegments

\* updateTrack: the blocks bs with their visibility brought up to date
UpdatedBlocks(bs, playerSegment) ==
    [i \in 1..Len(bs) |->
        LET block == bs[i] IN
        IF InVisibleRange(block.segmentIndex, playerSegment)
        THEN IF ~block.visible
             THEN [block EXCEPT !.meshVisible = TRUE, !.visible = TRUE]
             ELSE block
        ELSE IF block.visible
             THEN [block EXCEPT !.meshVisible = FALSE, !.visible = FALSE]
             ELSE block]

\* TrackGenerator.updateTrack
UpdateTrack(playerSegment) ==
    /\ blocks' = UpdatedBlocks(blocks, playerSegment)
    /\ lastCall' = [op |-> "updateTrack", playerSegment |-> playerSegment]
    /\ UNCHANGED <<procVars, gameVars, featVars, playVars, trackFrames, trackPath,
                   trackSegments, trackObjects, trackMesh, scene, generation>>

\* ------------------------------------------------------------- GameEngine
\* the player fields after the constructor, and as startGame resets them
PlayerAtStart ==
    [segment |-> 0, lane |-> 1, offset |-> Zero, speed |-> One,
     targetSpeed |-> One]

\* this.gameSpeed: set to CONFIG.game.speed by the constructor; the only
\* assignment, in updateAudioEffects, is behind
\* `if (!this.audioProcessor.isAnalysisDone) return`, and AudioProcessor
\* defines no isAnalysisDone
GameSpeed == One

\* THREE.MathUtils.lerp(x, y, t)
Lerp(x, y, t) == RatAdd(x, RatMul(RatSub(y, x), t))

\* THREE.MathUtils.clamp(value, min, max)
Clamp(value, min, max) ==
    IF RatLt(value, min) THEN min ELSE IF RatLt(max, value) THEN max ELSE value

\* trackGenerator.getTrackLength()
GetTrackLength == Len(trackSegments)

\* updateShipPosition: `if (this.playerOffset >= 1) { ... }`
Advance(segment, offset) ==
    IF ~RatLeq(One, offset) THEN [segment |-> segment, offset |-> offset]
    ELSE IF segment + 1 >= GetTrackLength
    THEN [segment |-> GetTrackLength - 1, offset |-> Rat(99, 100)]
    ELSE [segment |-> segment + 1, offset |-> RatSub(offset, One)]

\* GameEngine.updateShipPosition up to the call of getPositionOnTrack
UpdateShipPosition(pl, dt) ==
    LET speed == Lerp(pl.speed, pl.targetSpeed, RatMul(Seconds(dt), Rat(2, 1)))
        moved == RatAdd(pl.offset,
                        RatMul(RatMul(speed, Seconds(dt)), GameSpeed))
        at == Advance(pl.segment, moved)
    IN  [pl EXCEPT !.speed = speed, !.segment = at.segment,
                   !.offset = at.offset]

\* getPositionOnTrack(segment, lane, offset) reads .position of an undefined
\* path point
PositionThrows(segmentIndex, offset) ==
    /\ ~SegmentOutOfRange(segmentIndex)
    /\ PointIndex(segmentIndex, offset) + 1 \notin 1..Len(trackPath)

\* the one element of a singleton set; {e(x) : x \in {v}} computes v once
\* for all its uses in e
TheValue(S) == CHOOSE x \in S : TRUE

\* update() with the ship at pl after updateShipPosition: checkCollisions
\* (with scoreManager.addBlock), trackGenerator.updateTrack
UpdateFrom(g, t, pl) ==
    LET i == HitIndex(g.blocks, pl.segment, pl.lane) IN
    IF PositionThrows(pl.segment, pl.offset)
    THEN [g EXCEPT !.player = pl, !.loopThrew = TRUE]
    ELSE IF i = 0
    THEN [g EXCEPT !.player = pl,
                   !.blocks = UpdatedBlocks(g.blocks, pl.segment),
                   !.lastCall = [op |-> "updateTrack",
                                 playerSegment |-> pl.segment]]
    ELSE TheValue({
           [g EXCEPT
              !.player = pl,
              !.blocks = UpdatedBlocks(CollectedBlocks(g.blocks, i), pl.segment),
              !.scoreManager = sm,
              !.scoreLog = Append(@, Logged("addBlock", g.blocks[i].color, sm)),
              !.lastCall = [op |-> "updateTrack", playerSegment |-> pl.segment]]
           : sm \in {AddBlock(g.scoreManager, g.blocks[i].color, t)}})

\* GameEngine.update: updateShipPosition, then the rest; the camera, the
\* audio effects and the shaders change nothing modelled
Update(g, t) ==
    TheValue({UpdateFrom(g, t, pl) :
                 pl \in {UpdateShipPosition(g.player, g.deltaTime)}})

\* gameLoop after update() has left the game as updated: an exception out of
\* update() leaves the loop before requestAnimationFrame
Continue(updated, buf, ad, t) ==
    IF updated.loopThrew THEN updated
    ELSE IF PlaybackComplete(buf, ad, t)
    THEN \* handleGameComplete
         [updated EXCEPT !.pendingFrames = @ + 1,
                         !.isPlaying = FALSE, !.isGameOver = TRUE]
    ELSE [updated EXCEPT !.pendingFrames = @ + 1]

\* GameEngine.gameLoop called at tick t
GameLoop(g, buf, ad, t) ==
    IF ~g.isPlaying \/ g.isPaused THEN g
    ELSE TheValue({Continue(updated, buf, ad, t) :
            updated \in {Update(timed, t) :
               timed \in {[g EXCEPT !.deltaTime = t - g.lastFrameTime,
                                    !.lastFrameTime = t]}}})

\* the fields of the game a handler works on
Game ==
    [isPlaying |-> isPlaying, isPaused |-> isPaused, isGameOver |-> isGameOver,
     player |-> player, lastFrameTime |-> lastFrameTime,
     deltaTime |-> deltaTime, pendingFrames |-> pendingFrames,
     loopThrew |-> FALSE, scoreManager |-> scoreManager,
     scoreLog |-> scoreLog, blocks |-> blocks, lastCall |-> lastCall]

\* the handler leaves the game as g
Becomes(g) ==
    /\ isPlaying' = g.isPlaying
    /\ isPaused' = g.isPaused
    /\ isGameOver' = g.isGameOver
    /\ player' = g.player
    /\ lastFrameTime' = g.lastFrameTime
    /\ deltaTime' = g.deltaTime
    /\ pendingFrames' = g.pendingFrames
    /\ loopThrew' = (loopThrew \/ g.loopThrew)
    /\ scoreManager' = g.scoreManager
    /\ scoreLog' = g.scoreLog
    /\ blocks' = g.blocks
    /\ lastCall' = g.lastCall

\* the start button (enabled once a loadTrack has resolved) ->
\* UIController.startGame -> GameEngine.startGame; also the restart and
\* play-again buttons -> UIController.restartGame -> GameEngine.startGame
StartGame ==
    /\ startButtonEnabled
    /\ pendingFrames < MaxPending
    /\ IF ~isInitialized \/ audioBuffer = NoBuffer
       THEN UNCHANGED <<isPlaying, isPaused, isGameOver, blocks, lastCall,
                        audioData, audioSource, pendingFrames, lastFrameTime,
                        deltaTime, player, loopThrew, scoreManager, scoreLog>>
       ELSE LET stopped == Stop(audioData, audioSource, clock)
                played == Play(audioBuffer, stopped.audioData,
                               stopped.audioSource, clock)
                reset == [Game EXCEPT !.isPlaying = TRUE, !.isPaused = FALSE,
                                      !.isGameOver = FALSE,
                                      !.player = PlayerAtStart,
                                      !.lastFrameTime = clock,
                                      !.scoreManager = FreshScore,
                                      !.scoreLog = <<>>]
            IN  /\ audioData' = played.audioData
                /\ audioSource' = played.audioSource
                /\ \E g \in {GameLoop(reset, audioBuffer, played.audioData, clock)} :
                      Becomes(g)
    /\ UNCHANGED <<procVars, trackSource, isInitialized, startButtonEnabled,
                   featVars, trackFrames, trackPath, trackSegments,
                   trackObjects, trackMesh, scene, generation, clock>>

\* the pause key or button -> UIController.pauseGame -> GameEngine.pauseGame
PauseGame ==
    /\ isPlaying /\ ~isGameOver
    /\ isPaused' = TRUE
    /\ LET paused == Pause(audioData, audioSource, clock) IN
       /\ audioData' = paused.audioData
       /\ audioSource' = paused.audioSource
    /\ UNCHANGED <<procVars, trackSource, isInitialized, isPlaying, isGameOver,
                   startButtonEnabled, featVars, trackVars, clock, pendingFrames,
                   lastFrameTime, deltaTime, player, loopThrew, scoreManager,
                   scoreLog>>

\* the resume button -> UIController.resumeGame -> GameEngine.resumeGame
ResumeGame ==
    /\ isPlaying /\ ~isGameOver /\ isPaused
    /\ pendingFrames < MaxPending
    /\ LET resumed == Resume(audioData, audioSource, clock) IN
       /\ audioData' = resumed.audioData
       /\ audioSource' = resumed.audioSource
       /\ \E g \in {GameLoop([Game EXCEPT !.isPaused = FALSE,
                                          !.lastFrameTime = clock],
                             audioBuffer, resumed.audioData, clock)} :
             Becomes(g)
    /\ UNCHANGED <<procVars, trackSource, isInitialized, startButtonEnabled,
                   featVars, trackFrames, trackPath, trackSegments,
                   trackObjects, trackMesh, scene, generation, clock>>

\* the menu button -> UIController.exitToMenu -> GameEngine.endGame
EndGame ==
    /\ isPlaying
    /\ isPlaying' = FALSE
    /\ isPaused' = FALSE
    /\ isGameOver' = TRUE
    /\ LET stopped == Stop(audioData, audioSource, clock) IN
       /\ audioData' = stopped.audioData
       /\ audioSource' = stopped.audioSource
    /\ UNCHANGED <<procVars, trackSource, isInitialized, startButtonEnabled,
                   featVars, trackVars, clock, pendingFrames, lastFrameTime,
                   deltaTime, player, loopThrew, scoreManager, scoreLog>>

\* the browser runs one callback registered by
\* requestAnimationFrame(() => this.gameLoop())
AnimationFrame ==
    /\ pendingFrames > 0
    /\ \E g \in {GameLoop([Game EXCEPT !.pendingFrames = @ - 1], audioBuffer,
                          audioData, clock)} :
          Becomes(g)
    /\ UNCHANGED <<procVars, trackSource, isInitialized, startButtonEnabled,
                   featVars, trackFrames, trackPath, trackSegments,
                   trackObjects, trackMesh, scene, generation, clock, audioData,
                   audioSource>>

\* InputHandler.handleLaneChange -> GameEngine.changeLane(direction)
ChangeLane(direction) ==
    /\ isPlaying /\ ~isPaused
    /\ player.lane + direction >= 0
    /\ player.lane + direction < LaneCount
    /\ player' = [player EXCEPT !.lane = @ + direction]
    /\ UNCHANGED <<procVars, gameVars, featVars, trackVars, clock, audioData,
                   audioSource, pendingFrames, lastFrameTime, deltaTime,
                   loopThrew, scoreManager, scoreLog>>

\* InputHandler.update -> GameEngine.setTargetSpeed(speed)
SetTargetSpeed(speed) ==
    /\ isPlaying /\ ~isPaused
    /\ player' = [player EXCEPT
                    !.targetSpeed = Clamp(speed, Rat(1, 2), Rat(3, 2))]
    /\ UNCHANGED <<procVars, gameVars, featVars, trackVars, clock, audioData,
                   audioSource, pendingFrames, lastFrameTime, deltaTime,
                   loopThrew, scoreManager, scoreLog>>

\* the combo timer set by addBlock fires: resetCombo
ComboTimeout ==
    /\ scoreManager.comboTimer # 0
    /\ clock >= scoreManager.comboTimer
    /\ scoreManager' = [ResetCombo(scoreManager) EXCEPT !.comboTimer = 0]
    /\ scoreLog' = Append(scoreLog, Logged("resetCombo", -1, scoreManager'))
    /\ UNCHANGED <<procVars, gameVars, featVars, trackVars, clock, audioData,
                   audioSource, pendingFrames, lastFrameTime, deltaTime,
                   player, loopThrew>>

\* time passes
Tick ==
    /\ clock < MaxClock
    /\ clock' = clock + 1
    /\ UNCHANGED <<procVars, gameVars, featVars, trackVars, audioData,
                   audioSource, pendingFrames, lastFrameTime, deltaTime,
                   player, loopThrew, scoreManager, scoreLog>>

\* GameEngine.dispose: stops the loop, AudioProcessor.dispose stops the
\* source and drops the buffer, TrackGenerator.clearTrack drops the track
Dispose ==
    /\ audioBuffer # NoBuffer \/ isPlaying \/ trackSource # NoTrack
    /\ isPlaying' = FALSE
    /\ audioBuffer' = NoBuffer
    /\ audioData' = [audioData EXCEPT !.isPlaying = FALSE]
    /\ audioSource' = StoppedSource(audioSource, clock)
    /\ trackSource' = NoTrack
    /\ scene' = SceneCleared
    /\ trackMesh' = NoObject
    /\ trackObjects' = <<>>
    /\ blocks' = <<>>
    /\ trackSegments' = <<>>
    /\ trackPath' = <<>>
    /\ lastCall' = [op |-> "clearTrack"]
    /\ UNCHANGED <<analysisResults, analysisDone, onAnalysisProgressCallback,
                   onAnalysisCompleteCallback, runs, rejectedCall, loads,
                   progressCalls, completeCalls, isInitialized, isPaused,
                   isGameOver, startButtonEnabled, featVars, trackFrames,
                   generation, clock, pendingFrames, lastFrameTime, deltaTime,
                   player, loopThrew, scoreManager, scoreLog>>

\* ------------------------------------------------ ScoreManager, on its own
\* scoreManager.addBlock(blockColor)
AddBlockCall(blockColor) ==
    /\ Len(scoreLog) < MaxCalls
    /\ scoreManager' = AddBlock(scoreManager, blockColor, clock)
    /\ scoreLog' = Append(scoreLog, Logged("addBlock", blockColor, scoreManager'))
    /\ UNCHANGED <<procVars, gameVars, featVars, trackVars, clock, audioData,
                   audioSource, pendingFrames, lastFrameTime, deltaTime,
                   player, loopThrew>>

\* scoreManager.addMiss()
AddMissCall ==
    /\ Len(scoreLog) < MaxCalls
    /\ scoreManager' = AddMiss(scoreManager)
    /\ scoreLog' = Append(scoreLog, Logged("addMiss", -1, scoreManager'))
    /\ UNCHANGED <<procVars, gameVars, featVars, trackVars, clock, audioData,
                   audioSource, pendingFrames, lastFrameTime, deltaTime,
                   player, loopThrew>>

\* scoreManager.resetScore(): the fields are reset and the timer cleared
ResetScoreCall ==
    /\ scoreManager # FreshScore \/ scoreLog # <<>>
    /\ scoreManager' = FreshScore
    /\ scoreLog' = <<>>
    /\ UNCHANGED <<procVars, gameVars, featVars, trackVars, clock, audioData,
                   audioSource, pendingFrames, lastFrameTime, deltaTime,
                   player, loopThrew>>

\* the end of loadTrack and of handleAudioFileSelected for the analysed
\* frames: generateTrack, then the start button is enabled
TrackLoaded ==
    /\ GenerateTrackBody(trackFrames)
    /\ trackSource' = [generated |-> TRUE, run |-> 1, frames |-> trackFrames]
    /\ startButtonEnabled' = TRUE
    /\ player' = ResetShipPosition(player)
    /\ UNCHANGED <<procVars, isInitialized, isPlaying, isPaused, isGameOver,
                   featVars, clock, audioData, audioSource, pendingFrames,
                   lastFrameTime, deltaTime, loopThrew, scoreManager,
                   scoreLog>>

\* ---------------------------------------------------------- specification
FeatIdle ==
    /\ frequencyData = <<>>
    /\ timeData = <<>>
    /\ sampleRate = 0
    /\ bandEnergies = <<>>
    /\ beatIntensity = Zero
    /\ featPc = "idle"

\* the TrackGenerator after its constructor
TrackIdle ==
    /\ trackPath = <<>>
    /\ trackSegments = <<>>
    /\ blocks = <<>>
    /\ trackObjects = <<>>
    /\ trackMesh = NoObject
    /\ scene = {}
    /\ generation = 0
    /\ lastCall = [op |-> "none"]

\* the clocks, the playback, the game loop and the ScoreManager after the
\* constructors
PlayIdle ==
    /\ clock = 0
    /\ audioData = NoPlayback
    /\ audioSource = NoSource
    /\ pendingFrames = 0
    /\ lastFrameTime = 0
    /\ deltaTime = 0
    /\ player = PlayerAtStart
    /\ loopThrew = FALSE
    /\ scoreManager = FreshScore
    /\ scoreLog = <<>>

ProcInit ==
    /\ audioBuffer = NoBuffer
    /\ analysisResults = <<>>
    /\ analysisDone = FALSE
    /\ onAnalysisProgressCallback = FALSE
    /\ onAnalysisCompleteCallback = FALSE
    /\ runs = <<>>
    /\ rejectedCall = FALSE
    /\ loads = <<>>
    /\ progressCalls = <<>>
    /\ completeCalls = <<>>

GameInit ==
    /\ trackSource = NoTrack
    /\ isInitialized = TRUE
    /\ isPlaying = FALSE
    /\ isPaused = FALSE
    /\ isGameOver = FALSE
    /\ startButtonEnabled = FALSE

Init ==
    ProcInit /\ GameInit /\ FeatIdle /\ TrackIdle /\ trackFrames = <<>> /\ PlayIdle

Steps(maxRuns, maxLoads) ==
    \/ \E d \in Durations : Len(loads) < maxLoads /\ HandleAudioFileSelected(d)
    \/ \E t \in 1..maxLoads : Len(runs) < maxRuns /\ LoadDecoded(t)
    \/ \E t \in 1..maxLoads : LoadFailed(t)
    \/ \E res \in Resolutions :
          (audioBuffer # NoBuffer => Len(runs) < maxRuns) /\ AnalyzeAudio(res)
    \/ \E r \in 1..maxRuns : SuspendResolved(r)
    \/ \E r \in 1..maxRuns : ResumeResolved(r)
    \/ \E r \in 1..maxRuns : SuspendRejected(r)
    \/ \E r \in 1..maxRuns : ResumeRejected(r)
    \/ \E r \in 1..maxRuns : RenderingRejected(r)
    \/ SetAnalysisCompleteCallback
    \/ AudioDispose

Next == Steps(MaxRuns, MaxLoads)

\* the analysis pipeline: AudioProcessor and the loadTrack chain that drives it
Spec == Init /\ [][Next]_vars

AppNext ==
    \/ Steps(MaxAppRuns, MaxAppLoads)
    \/ StartGame
    \/ AnimationFrame
    \/ Dispose

\* the pipeline with overlapping loads and runs, together with the game
\* engine's start and dispose
AppSpec == Init /\ [][AppNext]_vars

\* the feature extractors applied to arrays of 8-bit magnitudes
FeatInit ==
    /\ ProcInit
    /\ PlayIdle
    /\ GameInit
    /\ sampleRate \in SampleRates
    /\ frequencyData \in ShortArrays \cup FullArrays
    /\ timeData \in ShortArrays \cup FullArrays
    /\ (frequencyData \in FullArrays) <=> (timeData \in FullArrays)
    /\ bandEnergies = <<>>
    /\ beatIntensity = Zero
    /\ featPc = "idle"
    /\ TrackIdle
    /\ trackFrames = <<>>

FeatNext ==
    \/ ExtractBandEnergies
    \/ ExtractBeat

FeatureSpec == FeatInit /\ [][FeatNext]_vars

\* the bands of a frame with no energy
QuietBands == [b \in 1..Len(FrequencyBands) |-> Zero]

\* a waveform whose mean amplitude maps to a target elevation of 0
LevelWave == <<0, 0, 64>>

\* frames without a beat: digital silence, and a level frame
SilentFrame == MakeFrame(Zero, QuietBands, <<128>>)

LevelFrame == MakeFrame(Zero, QuietBands, LevelWave)

\* a strong beat with all energy in band 1: the track turns
TurnFrame == MakeFrame(Rat(4, 5), [QuietBands EXCEPT ![2] = One], <<128>>)

\* a beat above the block threshold and below the turn threshold
SoftBeatFrame ==
    MakeFrame(Rat(13, 20),
              [QuietBands EXCEPT ![1] = Rat(1, 4), ![2] = Rat(1, 2)], LevelWave)

\* a block frame with equal energies in bands 1 and 4, whose difference
\* steers the track: the long sequences stay straight, which keeps their
\* exact arithmetic within the integer range
EvenBeatFrame ==
    MakeFrame(Rat(13, 20),
              [QuietBands EXCEPT ![1] = Rat(1, 4), ![2] = Rat(1, 2),
                                 ![5] = Rat(1, 2)], LevelWave)

\* mid-band energy above the tilt threshold, full-scale waveform
TiltFrame == MakeFrame(Zero, [QuietBands EXCEPT ![3] = Rat(4, 5)], <<0>>)

\* a block frame with its energy in the highest band
HighBandFrame ==
    MakeFrame(Rat(13, 20), [QuietBands EXCEPT ![6] = Rat(1, 2)], LevelWave)

\* a block frame whose highest band is NaN (calculateBandEnergies at a
\* sample rate of 40000 Hz or less)
NaNBandFrame ==
    MakeFrame(Rat(13, 20),
              [QuietBands EXCEPT ![1] = Rat(1, 4), ![6] = NaN], LevelWave)

ShortKinds == {SilentFrame, TurnFrame, SoftBeatFrame, TiltFrame}

BlockKinds == {EvenBeatFrame, HighBandFrame, NaNBandFrame}

\* every sequence of at most MaxFrames frames of the short kinds
ShortSeqs == UNION {[1..n -> ShortKinds] : n \in 0..MaxFrames}

\* the shortest sequence for which addTrackGrid does not throw
MinGridFrames == GridInterval * PointsPerSegment + 1

\* n level frames with the block frame `kind` at the (0-based) indices in at
LongSeq(n, at, kind) == [i \in 1..n |-> IF (i - 1) \in at THEN kind ELSE LevelFrame]

\* long sequences: blocks in segment 0, in segment 1 and in the last segment
LongSeqs ==
    {LongSeq(LongFrames, at, EvenBeatFrame) :
        at \in SUBSET {0, PointsPerSegment + 1, LongFrames - 1}}
    \cup {LongSeq(MinGridFrames, {0}, kind) : kind \in BlockKinds}
    \cup {LongSeq(LongFrames, {0, LongFrames - 1}, HighBandFrame)}

\* the sequences a second generateTrack is given
ReplacementSeqs ==
    {<<>>, <<SilentFrame>>, LongSeq(MinGridFrames, {0}, EvenBeatFrame)}

\* arguments of the track queries
QuerySegments == {-1, 0, Len(trackSegments) - 1, Len(trackSegments)}

QueryLanes == 0..LaneCount

PositionLanes == {0, LaneCount - 1}

QueryOffsets == {Zero, Rat(1, 2)}

\* player segments at both edges of the visible range of segments 0 and 1
PlayerSegments ==
    {-VisibleSegments - 1, -VisibleSegments, 0, BehindSegments,
     BehindSegments + 1}

\* the track generator given a frame sequence
TrackInit ==
    /\ ProcInit
    /\ PlayIdle
    /\ GameInit
    /\ FeatIdle
    /\ TrackIdle
    /\ trackFrames \in ShortSeqs \cup LongSeqs

TrackNext ==
    \/ generation = 0 /\ GenerateTrack(trackFrames)
    \/ \E seg \in QuerySegments, lane \in PositionLanes, offset \in QueryOffsets :
          GetPositionOnTrack(seg, lane, offset)
    \/ \E seg \in QuerySegments, offset \in QueryOffsets :
          GetDirectionAtSegment(seg, offset)
    \/ \E seg \in QuerySegments, lane \in QueryLanes :
          generation >= 1 /\ CheckBlockCollision(seg, lane)
    \/ \E p \in PlayerSegments : generation >= 1 /\ UpdateTrack(p)

TrackSpec == TrackInit /\ [][TrackNext]_vars

\* the track generator given one frame sequence after another
RegenInit ==
    /\ ProcInit
    /\ PlayIdle
    /\ GameInit
    /\ FeatIdle
    /\ TrackIdle
    /\ trackFrames \in {<<>>, <<SoftBeatFrame>>,
                        LongSeq(LongFrames, {0, PointsPerSegment + 1},
                                EvenBeatFrame)}

RegenNext ==
    \/ generation = 0 /\ GenerateTrack(trackFrames)
    \/ \E f \in ReplacementSeqs :
          generation >= 1 /\ generation < MaxGenerations /\ GenerateTrack(f)
    \/ generation >= 1 /\ ClearTrack
    \/ \E seg \in QuerySegments, lane \in QueryLanes :
          generation >= 1 /\ CheckBlockCollision(seg, lane)
    \/ \E p \in PlayerSegments : generation >= 1 /\ UpdateTrack(p)

RegenSpec == RegenInit /\ [][RegenNext]_vars

\* the frame sequences of the tracks the game is played on: one block, in
\* segment 0
GameSeqs == {LongSeq(LongFrames, {0}, EvenBeatFrame)}

\* the speeds InputHandler.update passes to setTargetSpeed
TargetSpeeds == {Rat(1, 2), One, Rat(3, 2)}

\* a buffer has been decoded and analysed into trackFrames; the records of
\* the pipeline's runs and loads, which the game never reads, are left out
GameSpecInit ==
    /\ \E f \in GameSeqs :
          /\ trackFrames = f
          /\ analysisResults = f
          /\ audioBuffer = [id |-> 1,
                            dur |-> IntDiv(Len(f), DefaultResolution)]
    /\ analysisDone = TRUE
    /\ onAnalysisProgressCallback = TRUE
    /\ onAnalysisCompleteCallback = FALSE
    /\ runs = <<>>
    /\ rejectedCall = FALSE
    /\ loads = <<>>
    /\ progressCalls = <<>>
    /\ completeCalls = <<>>
    /\ GameInit
    /\ FeatIdle
    /\ TrackIdle
    /\ PlayIdle

GameNext ==
    \/ generation = 0 /\ TrackLoaded
    \/ StartGame
    \/ PauseGame
    \/ ResumeGame
    \/ EndGame
    \/ AnimationFrame
    \/ ComboTimeout
    \/ Tick
    \/ Dispose

\* the game started, paused, resumed, ended and disposed of on a loaded
\* track, the ship left to itself
GameSpec == GameSpecInit /\ [][GameNext]_vars

ShipNext ==
    \/ generation = 0 /\ TrackLoaded
    \/ StartGame
    \/ AnimationFrame
    \/ \E direction \in {-1, 1} : ChangeLane(direction)
    \/ \E speed \in TargetSpeeds : SetTargetSpeed(speed)
    \/ ComboTimeout
    \/ Tick

\* the ship steered along a loaded track
ShipSpec == GameSpecInit /\ [][ShipNext]_vars

ScoreNext ==
    \/ \E blockColor \in 0..(BlockColorCount - 1) : AddBlockCall(blockColor)
    \/ AddMissCall
    \/ ComboTimeout
    \/ ResetScoreCall
    \/ Tick

\* the ScoreManager called directly
ScoreSpec == Init /\ [][ScoreNext]_vars

\* ------------------------------------------------------------- properties
RunIds == 1..Len(runs)

\* floor(D * R) of a run, computed from its buffer and resolution
ExpectedFrames(run) == (run.dur.n * run.res) \div run.dur.d

StrictlyIncreasingTimes(frames) ==
    \A i \in 1..(Len(frames) - 1) : RatLt(frames[i].time, frames[i + 1].time)

\* C1: a run during which no other loadAudioFile or analyzeAudio call was in
\* flight resolves with exactly floor(D*R) frames, the i-th (0-based) labelled
\* with time i/R, so the times strictly increase.
C1_FrameCountAndTimes ==
    \A r \in RunIds :
        (runs[r].promise = "resolved" /\ runs[r].solo) =>
            /\ Len(runs[r].result) = ExpectedFrames(runs[r])
            /\ \A i \in 1..Len(runs[r].result) :
                   /\ RatEq(runs[r].result[i].time, Rat(i - 1, runs[r].res))
                   /\ runs[r].result[i].run = r
            /\ StrictlyIncreasingTimes(runs[r].result)

C1_Witness ==
    \E r \in RunIds :
        /\ runs[r].promise = "resolved"
        /\ runs[r].solo
        /\ Len(runs[r].result) >= 2
        /\ (runs[r].dur.n * runs[r].res) % runs[r].dur.d # 0

\* C2: in a run started with a progress callback registered, the callback
\* has been invoked once for each frame the run appended, the i-th time with
\* i/frameCount and with frame i already at the end of analysisResults; the
\* values lie in [0,1] and strictly increase.
C2_ProgressPerFrame ==
    \A r \in RunIds :
        runs[r].hadCb =>
            LET calls == progressCalls[r] IN
            /\ Len(calls) = runs[r].currentPoint
            /\ (r = Len(runs) /\ runs[r].solo) => Len(analysisResults) = Len(calls)
            /\ \A i \in 1..Len(calls) :
                   /\ RatEq(calls[i].value, Rat(i - 1, ExpectedFrames(runs[r])))
                   /\ InUnit(calls[i].value)
                   /\ calls[i].last.run = r
                   /\ RatEq(calls[i].last.time, Rat(i - 1, runs[r].res))
            /\ \A i \in 1..(Len(calls) - 1) :
                   RatLt(calls[i].value, calls[i + 1].value)

C2_Witness ==
    \E r \in RunIds : runs[r].hadCb /\ Len(progressCalls[r]) >= 2

\* C3: the completion callback of a run fires at most once, in the step
\* that ends the run: all floor(D*R) frames have been appended by then, the
\* promise resolves in the same step with the sequence the callback receives,
\* and a finished run appends nothing more.
C3_CompletionOnce ==
    [][\A r \in 1..Len(runs') :
          LET now == runs'[r]
              was == r <= Len(runs) /\ runs[r].pc = "done"
          IN  /\ Len(completeCalls'[r]) <= 1
              /\ now.pc # "done" => completeCalls'[r] = <<>>
              /\ (now.pc = "done" /\ ~was) =>
                    /\ now.currentPoint = ExpectedFrames(now)
                    /\ now.promise = "resolved"
                    /\ analysisDone'
                    /\ now.result = analysisResults'
                    /\ now.solo => Len(now.result) = ExpectedFrames(now)
                    /\ onAnalysisCompleteCallback =>
                          completeCalls'[r] = <<[frames |-> now.result,
                                                 appended |-> ExpectedFrames(now)]>>
              /\ was => /\ now = runs[r]
                        /\ completeCalls'[r] = completeCalls[r]
      ]_vars

C3_Witness ==
    \E r \in RunIds :
        /\ runs[r].pc = "done"
        /\ Len(completeCalls[r]) = 1
        /\ Len(runs[r].result) >= 2

\* C4: analyzeAudio called with no decoded buffer rejects at once and
\* changes nothing: analysisResults and analysisDone keep their values, no
\* run is started and no callback is invoked.
C4_NoBufferRejects ==
    [][/\ (rejectedCall' /\ ~rejectedCall) =>
             /\ audioBuffer = NoBuffer
             /\ analysisResults' = analysisResults
             /\ analysisDone' = analysisDone
             /\ runs' = runs
             /\ progressCalls' = progressCalls
             /\ completeCalls' = completeCalls
       /\ \A r \in 1..Len(runs') : runs'[r].buf # NoBuffer.id
      ]_vars

C4_Witness ==
    /\ rejectedCall
    /\ audioBuffer = NoBuffer
    /\ Len(analysisResults) > 0
    /\ analysisDone

\* C5: when a suspend, resume or rendering step fails after at least one
\* frame was appended, the run's promise is rejected, none of its frames is
\* left in analysisResults, and no track is generated from it.
C5_AbortDiscards ==
    \A r \in RunIds :
        (runs[r].pc \in {"hung", "renderfail"} /\ runs[r].currentPoint >= 1) =>
            /\ runs[r].promise = "rejected"
            /\ \A i \in 1..Len(analysisResults) : analysisResults[i].run # r
            /\ trackSource.run # r

\* C6: at most one run is appending frames at any time, and every resolved
\* sequence holds the frames of one run only, in strictly increasing time
\* order.
C6_NoConcurrentRuns ==
    /\ Cardinality({r \in RunIds : InFlight(runs[r])}) <= 1
    /\ \A r \in RunIds :
          runs[r].promise = "resolved" =>
              /\ StrictlyIncreasingTimes(runs[r].result)
              /\ \A i \in 1..Len(runs[r].result) : runs[r].result[i].run = r

\* the analysis of the loaded buffer is finished and the live track was
\* generated from that run's frames
TrackReady ==
    /\ audioBuffer # NoBuffer
    /\ trackSource.generated
    /\ trackSource.run \in RunIds
    /\ runs[trackSource.run].buf = audioBuffer.id
    /\ runs[trackSource.run].pc = "done"
    /\ \A r \in RunIds : runs[r].buf = audioBuffer.id => ~InFlight(runs[r])

\* C7: startGame succeeds only when the analysis of the loaded audio has
\* completed and generateTrack has run on its frames.
C7_StartOnlyWhenTrackReady ==
    [][(~isPlaying /\ isPlaying') => TrackReady]_vars

\* C8: calculateBandEnergies returns one element per configured band, each
\* in [0,1], for every array of 8-bit magnitudes and every sample rate.
C8_BandEnergiesInUnit ==
    featPc # "idle" =>
        /\ Len(bandEnergies) = Len(FrequencyBands)
        /\ \A b \in 1..Len(bandEnergies) : InUnit(bandEnergies[b])

\* C9: detectBeat returns a value in [0,1] for arrays of any lengths.
C9_BeatInUnit ==
    featPc = "done" => InUnit(beatIntensity)

\* x, with an undefined (NaN) value normalized to zero
NormalizedToZero(x) == IF x.nan THEN Zero ELSE x

\* C10: numeric edge cases yield 0 for the affected values: with empty
\* frequency data every band energy is 0, and a bass or transient term whose
\* range is empty counts as 0 in the beat intensity, which is never NaN.
C10_EdgeCasesZero ==
    /\ (featPc # "idle" /\ Len(frequencyData) = 0) =>
           \A b \in 1..Len(bandEnergies) : RatEq(bandEnergies[b], Zero)
    /\ (featPc = "done"
          /\ (BinIndex(LowFreqMax, sampleRate, Len(frequencyData)) = 0
                 \/ Len(timeData) = 0)) =>
           RatEq(beatIntensity,
                 MathMin(One,
                     RatAdd(RatMul(NormalizedToZero(BassEnergy(frequencyData, sampleRate)), Rat(7, 10)),
                            RatMul(NormalizedToZero(TransientEnergy(timeData)), Rat(3, 10)))))

\* a track generated from trackFrames is in place
TrackGenerated == generation >= 1 /\ trackMesh # NoObject

\* C11: after generateTrack on N frames the number of track segments is
\* floor(N / pointsPerSegment), for every N >= 0.
C11_SegmentCountFloor ==
    TrackGenerated =>
        Len(trackSegments) = Len(trackFrames) \div PointsPerSegment

\* C12: every collectible has a segment index in [0, segmentCount) and a lane
\* index in [0, laneCount), whatever the band energies and random draws; a
\* collectible exists only for a block frame whose segment floor(i/4) is in
\* range.
C12_CollectiblesInRange ==
    \A k \in 1..Len(blocks) :
        /\ blocks[k].segmentIndex \in 0..(Len(trackSegments) - 1)
        /\ blocks[k].laneIndex \in 0..(LaneCount - 1)
        /\ \E i \in 0..(Len(trackFrames) - 1) :
              /\ trackFrames[i + 1].isBlock
              /\ blocks[k].segmentIndex = i \div PointsPerSegment

\* a collectible in the last segment and the last lane
C12_Witness ==
    /\ TrackGenerated
    /\ \E k \in 1..Len(blocks) :
          /\ blocks[k].segmentIndex = Len(trackSegments) - 1
          /\ blocks[k].laneIndex = LaneCount - 1

\* the squared distance between the adjacent path points p and q: q lies
\* StepLength away from p horizontally (sin^2 + cos^2 = 1) and q.y - p.y
\* vertically
DistanceSquared(p, q) ==
    RatAdd(RatMul(q.stride, q.stride),
           RatMul(RatSub(q.y, p.y), RatSub(q.y, p.y)))

\* C13: adjacent path points are exactly one forward step,
\* segmentLength / pointsPerSegment, apart in 3D space.
C13_PathContinuity ==
    \A i \in 1..(Len(trackPath) - 1) :
        RatEq(DistanceSquared(trackPath[i], trackPath[i + 1]),
              RatMul(StepLength, StepLength))

\* C14: the path always starts with 10 lead-in points on a straight, level
\* line with heading 0 and tilt 0, whatever the frames are; generated from an
\* empty frame sequence the track is exactly this lead-in, with no segment
\* and no collectible.
C14_LeadIn ==
    TrackGenerated =>
        /\ Len(trackPath) >= LeadInPoints
        /\ \A i \in 1..LeadInPoints :
              /\ RatEq(trackPath[i].heading, Zero)
              /\ RatEq(trackPath[i].rotation, Zero)
              /\ RatEq(trackPath[i].tilt, Zero)
              /\ RatEq(trackPath[i].y, Zero)
              /\ RatEq(trackPath[i].stride,
                       IF i = 1 THEN Zero ELSE StepLength)
        /\ Len(trackFrames) = 0 =>
              /\ Len(trackPath) = LeadInPoints
              /\ trackSegments = <<>>
              /\ blocks = <<>>
              /\ lastCall.op = "generateTrack" => ~lastCall.threw

\* generateTrack has returned for the empty frame sequence
C14_Witness ==
    /\ TrackGenerated
    /\ trackFrames = <<>>
    /\ lastCall.op = "generateTrack"
    /\ Len(trackPath) = LeadInPoints

\* no frame of the sequence has a beat intensity above 0.7
NoStrongBeat(results) ==
    \A i \in 1..Len(results) : ~RatGt(results[i].beatIntensity, Rat(7, 10))

\* C15: when no frame has beatIntensity > 0.7, every path point keeps
\* heading 0: the path continues the lead-in straight on, whatever the band
\* energies are.
C15_StraightWithoutBeat ==
    (TrackGenerated /\ NoStrongBeat(trackFrames)) =>
        \A i \in 1..Len(trackPath) :
            /\ RatEq(trackPath[i].heading, Zero)
            /\ RatEq(trackPath[i].rotation, Zero)

\* a track generated from frames with a beat of at most 0.7, one of them
\* with a positive beat and unequal energies in bands 1 and 4
C15_Witness ==
    /\ TrackGenerated
    /\ NoStrongBeat(trackFrames)
    /\ Len(trackPath) > LeadInPoints
    /\ \E i \in 1..Len(trackFrames) :
          /\ RatGt(trackFrames[i].beatIntensity, Zero)
          /\ ~RatEq(trackFrames[i].bandEnergies[2],
                    trackFrames[i].bandEnergies[5])

\* C16: getPositionOnTrack and getDirectionAtSegment called with a segment
\* index below 0 or at or above the segment count, before any track exists
\* included, return the origin and the forward direction (0, 0, -1), do not
\* throw and change nothing.
C16_OutOfRangeQueries ==
    [][(/\ lastCall'.op \in {"getPositionOnTrack", "getDirectionAtSegment"}
        /\ (lastCall'.segmentIndex < 0
               \/ lastCall'.segmentIndex >= Len(trackSegments)))
       => /\ ~lastCall'.threw
          /\ lastCall'.op = "getPositionOnTrack" => lastCall'.result = "origin"
          /\ lastCall'.op = "getDirectionAtSegment" =>
                lastCall'.result = "forward"
          /\ UNCHANGED <<trackPath, trackSegments, blocks, trackObjects,
                         trackMesh, scene, generation>>]_vars

\* a query one past the last segment of a generated track has returned
C16_Witness ==
    /\ TrackGenerated
    /\ Len(trackSegments) >= 1
    /\ lastCall.op = "getDirectionAtSegment"
    /\ lastCall.segmentIndex = Len(trackSegments)
    /\ lastCall.result = "forward"

\* C17: checkBlockCollision called with a player segment outside
\* [0, segmentCount) or a lane outside [0, laneCount) reports no collision
\* and marks no collectible as collected.
C17_OutOfRangeNoCollision ==
    [][(/\ lastCall'.op = "checkBlockCollision"
        /\ \/ lastCall'.playerSegment \notin 0..(Len(trackSegments) - 1)
           \/ lastCall'.playerLane \notin 0..(LaneCount - 1))
       => /\ lastCall'.result = "null"
          /\ blocks' = blocks]_vars

\* collectible k is within one segment of the given segment, in the given lane
Matches(k, segmentIndex, laneIndex) ==
    /\ Abs(blocks[k].segmentIndex - segmentIndex) <= 1
    /\ blocks[k].laneIndex = laneIndex

\* C18: within one generated track a collectible is returned by
\* checkBlockCollision at most once: a returned collectible was uncollected
\* and is collected from then on, and a call all of whose matching
\* collectibles are already collected returns no collision.
C18_CollectOnce ==
    [][/\ \A k \in 1..Len(blocks) :
             blocks[k].collected => (k <= Len(blocks') /\ blocks'[k].collected)
       /\ lastCall'.op = "checkBlockCollision" =>
             /\ lastCall'.result = "block" =>
                   /\ ~blocks[lastCall'.index + 1].collected
                   /\ blocks'[lastCall'.index + 1].collected
                   /\ Matches(lastCall'.index + 1, lastCall'.playerSegment,
                              lastCall'.playerLane)
             /\ (\A k \in 1..Len(blocks) :
                    Matches(k, lastCall'.playerSegment, lastCall'.playerLane)
                        => blocks[k].collected)
                   => (lastCall'.result = "null" /\ blocks' = blocks)]_vars

\* a call has found only an already collected collectible and returned none
C18_Witness ==
    /\ lastCall.op = "checkBlockCollision"
    /\ lastCall.result = "null"
    /\ \E k \in 1..Len(blocks) :
          /\ blocks[k].collected
          /\ Matches(k, lastCall.playerSegment, lastCall.playerLane)

\* C19: after updateTrack(p) a collectible is visible exactly when its
\* segment index lies in [p - 5, p + visibleSegments], whatever calls came
\* before; the mesh of a collectible not yet collected is shown accordingly.
C19_VisibleRange ==
    lastCall.op = "updateTrack" =>
        \A k \in 1..Len(blocks) :
            LET inRange ==
                    /\ blocks[k].segmentIndex >= lastCall.playerSegment - 5
                    /\ blocks[k].segmentIndex
                          <= lastCall.playerSegment + VisibleSegments
            IN  /\ blocks[k].visible <=> inRange
                /\ ~blocks[k].collected => (blocks[k].meshVisible <=> inRange)

\* updateTrack has left one collectible visible and hidden another, after a
\* collectible was collected and a collectible was hidden by an earlier call
C19_Witness ==
    /\ lastCall.op = "updateTrack"
    /\ \E k \in 1..Len(blocks) : blocks[k].visible /\ ~blocks[k].collected
    /\ \E k \in 1..Len(blocks) : ~blocks[k].visible
    /\ \E k \in 1..Len(blocks) : blocks[k].collected

\* the objects the generator holds or has placed in the scene
LiveObjects ==
    scene \cup Range(trackObjects) \cup {trackMesh}
        \cup {blocks[k].mesh : k \in 1..Len(blocks)}

\* C20: after a second generateTrack the path and the segments are those
\* derived from the second frame sequence, every collectible comes from a
\* block frame of that sequence and is uncollected, the scene holds the
\* objects of the second generation only, and checkBlockCollision returns
\* collectibles of the second generation only.
C20_NoStaleState ==
    (generation >= 2 /\ trackMesh # NoObject) =>
        /\ trackPath = GenerateTrackPath(trackFrames).path
        /\ trackSegments = GenerateTrackPath(trackFrames).segments
        /\ \A o \in LiveObjects : o.gen = generation
        /\ scene = {trackMesh} \cup Range(trackObjects)
        /\ \A k \in 1..Len(blocks) :
              \E i \in 0..(Len(trackFrames) - 1) :
                  /\ trackFrames[i + 1].isBlock
                  /\ blocks[k].segmentIndex = i \div PointsPerSegment
                  /\ blocks[k].color = trackFrames[i + 1].blockColor
        /\ trackObjects # <<>> =>
              Len(blocks) = Cardinality({i \in 1..Len(trackFrames) :
                                            trackFrames[i].isBlock})
        /\ lastCall.op = "generateTrack" =>
              \A k \in 1..Len(blocks) :
                  /\ ~blocks[k].collected
                  /\ blocks[k].visible
                  /\ blocks[k].meshVisible
        /\ (lastCall.op = "checkBlockCollision" /\ lastCall.result = "block") =>
              /\ lastCall.mesh.gen = generation
              /\ lastCall.mesh \in scene

\* a second generateTrack has returned with a collectible
C20_Witness ==
    /\ generation = 2
    /\ lastCall.op = "generateTrack"
    /\ ~lastCall.threw
    /\ Len(blocks) >= 1
    /\ trackFrames \in ReplacementSeqs

\* C30: after generateTrack on N frames the path has 10 + N points and the
\* k-th segment covers the path indices 7 + 4k .. 10 + 4k with audio index
\* 4k; every segment lies within the path, segments are pairwise disjoint and
\* their start indices increase with the segment index.
C30_SegmentLayout ==
    TrackGenerated =>
        /\ Len(trackPath) = 10 + Len(trackFrames)
        /\ \A k \in 0..(Len(trackSegments) - 1) :
              LET segment == trackSegments[k + 1] IN
              /\ segment.startPathIndex = 7 + 4 * k
              /\ segment.endPathIndex = 10 + 4 * k
              /\ segment.audioIndex = 4 * k
              /\ 0 <= segment.startPathIndex
              /\ segment.startPathIndex < segment.endPathIndex
              /\ segment.endPathIndex < Len(trackPath)
        /\ \A j, k \in 1..Len(trackSegments) :
              j < k =>
                  /\ trackSegments[j].startPathIndex
                        < trackSegments[k].startPathIndex
                  /\ trackSegments[j].endPathIndex
                        < trackSegments[k].startPathIndex

\* a generated track whose frame count is not a multiple of 4, with at least
\* two segments
C30_Witness ==
    /\ TrackGenerated
    /\ Len(trackFrames) % PointsPerSegment # 0
    /\ Len(trackSegments) >= 2
    /\ trackSegments[Len(trackSegments)].endPathIndex = Len(trackPath) - 1

\* C28: once a collectible has been collected its mesh is never visible
\* again for the lifetime of the track.
C28_CollectedStaysHidden ==
    \A k \in 1..Len(blocks) : blocks[k].collected => ~blocks[k].meshVisible

\* C22: the features stored in frame i are taken from the analyser window
\* captured with the offline playback position at the frame's own time
\* label, i / resolution.
C22_CapturedAtLabel ==
    \A i \in 1..Len(analysisResults) :
        RatEq(analysisResults[i].pos, analysisResults[i].time)

\* Math.round(freq / nyquist * length) with nyquist = rate / 2
RoundedBinIndex(freq, rate, length) ==
    (4 * freq * length + rate) \div (2 * rate)

\* the mean normalized magnitude of the bins from the rounded index of
\* band.min to the rounded index of band.max, both inclusive
RoundedBandEnergy(band, data, rate) ==
    LET minIndex == RoundedBinIndex(band.min, rate, Len(data))
        maxIndex == RoundedBinIndex(band.max, rate, Len(data))
    IN  RatDiv(SumNormalized(data, minIndex, maxIndex),
               Rat(maxIndex - minIndex + 1, 1))

\* the same JavaScript number: both NaN, or equal
SameNumber(x, y) == (x.nan /\ y.nan) \/ RatEq(x, y)

\* C23: for each configured band, calculateBandEnergies averages the
\* normalized magnitudes of exactly the bins from
\* round(min / nyquist * length) to round(max / nyquist * length), inclusive.
C23_RoundedBins ==
    featPc # "idle" =>
        \A b \in 1..Len(bandEnergies) :
            SameNumber(bandEnergies[b],
                       RoundedBandEnergy(FrequencyBands[b], frequencyData,
                                         sampleRate))

\* C26: when every analyzeAudio run belongs to a loadTrack call, a run
\* resolves with the floor(D*R) frames of the buffer it started with, all of
\* them its own, whatever loadAudioFile completed meanwhile, and generateTrack
\* is fed such a sequence of the buffer that is loaded at that moment, if
\* one is loaded.
C26_LoadDoesNotAlterRun ==
    [][(\A i \in 1..Len(runs') : runs'[i].task # 0) =>
          /\ \A r \in 1..Len(runs') :
                (runs'[r].promise = "resolved"
                    /\ (r > Len(runs) \/ runs[r].promise # "resolved")) =>
                    /\ Len(runs'[r].result) = ExpectedFrames(runs'[r])
                    /\ \A i \in 1..Len(runs'[r].result) :
                          runs'[r].result[i].run = r
          /\ (trackSource' # trackSource
                 /\ trackSource'.run \in 1..Len(runs')) =>
                /\ Len(trackSource'.frames)
                      = ExpectedFrames(runs'[trackSource'.run])
                /\ \A i \in 1..Len(trackSource'.frames) :
                      trackSource'.frames[i].run = trackSource'.run
                /\ audioBuffer' # NoBuffer =>
                      runs'[trackSource'.run].buf = audioBuffer'.id]_vars

\* the entries i-2, i-1, i of the log are addBlock calls with one color, and
\* entry i is the third of its run: the call before them (if any) is not
\* another addBlock with that color
ThirdInARow(log, i) ==
    /\ i >= 3
    /\ i <= Len(log)
    /\ \A k \in {i - 2, i - 1, i} :
          log[k].op = "addBlock" /\ log[k].blockColor = log[i].blockColor
    /\ i >= 4 => ~(/\ log[i - 3].op = "addBlock"
                   /\ log[i - 3].blockColor = log[i].blockColor)

\* C24: the third addBlock in a row with the same color, with no miss and no
\* combo reset in between, increments `perfect` and adds the perfect-match
\* bonus (on top of the base points) to the score.
C24_PerfectOnThird ==
    \A i \in 1..Len(scoreLog) :
        ThirdInARow(scoreLog, i) =>
            /\ scoreLog[i].perfect = scoreLog[i - 1].perfect + 1
            /\ scoreLog[i].score - scoreLog[i - 1].score
                  >= BasePoints + PerfectMatchPoints

\* C21: pausing and resuming continues from the paused position: after
\* pause() getCurrentTime() is the playback time that had elapsed, resume()
\* restarts the source at that offset, and the playback position does not
\* jump backwards over a pause or a resume.
C21_ResumeFromPausedPosition ==
    [][/\ (PauseGame /\ audioData.isPlaying) =>
             /\ GetCurrentTime(audioData', clock')
                   = SourcePosition(audioSource, clock)
             /\ SourcePosition(audioSource', clock')
                   = SourcePosition(audioSource, clock)
       /\ ResumeGame =>
             /\ audioSource'.running
             /\ audioSource'.offset = SourcePosition(audioSource, clock)
             /\ GetCurrentTime(audioData', clock')
                   >= SourcePosition(audioSource, clock)]_vars

\* idle, running, paused, over
FlagStates ==
    {<<FALSE, FALSE, FALSE>>, <<TRUE, FALSE, FALSE>>, <<TRUE, TRUE, FALSE>>,
     <<FALSE, FALSE, TRUE>>}

\* C29: under startGame, pauseGame, resumeGame, endGame, the completion of
\* the track and dispose, the flags (isPlaying, isPaused, isGameOver) are
\* always idle (F,F,F), running (T,F,F), paused (T,T,F) or over (F,F,T).
C29_FlagCombinations == <<isPlaying, isPaused, isGameOver>> \in FlagStates

\* C25: there is at most one game-loop chain: whatever the interleaving of
\* startGame, pauseGame, resumeGame, restart and frame callbacks, never more
\* than one pending animation-frame callback will go on to execute update().
C25_SingleLoopChain == (isPlaying /\ ~isPaused) => pendingFrames <= 1

\* C27: on a track with at least one segment, whatever the delta time, after
\* every updateShipPosition playerOffset is in [0, 1) and playerSegment in
\* [0, segment count), so that getPositionOnTrack reads a path point that
\* exists.
C27_ShipStaysOnTrack ==
    Len(trackSegments) >= 1 =>
        /\ RatLeq(Zero, player.offset)
        /\ RatLt(player.offset, One)
        /\ player.segment \in 0..(Len(trackSegments) - 1)
        /\ ~loopThrew

====
